---- MODULE Spec2Model ----
(***************************************************************************)
(* Model of solana-agent-wallet: the spending-policy engine of AgentWallet *)
(* (validateTransfer, resetDailyLimitIfNeeded), the transfer lifecycle     *)
(* (transferSOL with its await points) and the wallet's control            *)
(* operations (deactivate, reactivate, updatePolicy, refreshBalance).      *)
(*                                                                         *)
(* Amounts are whole lamports.  Time is counted in ticks; a UTC day is     *)
(* DayLength ticks long.  The ledger (Connection) is the environment: its  *)
(* calls resolve or reject nondeterministically.                           *)
(***************************************************************************)
EXTENDS Integers, Sequences, FiniteSets, TLC

\* ------------------------------------------------------------------ bounds

\* Largest lamport amount of a balance, a policy field or a request.
MaxLamports == 2

\* Last tick of the clock.
MaxTime == 2

\* Ticks per UTC day: nextMidnight is setUTCHours(24, 0, 0, 0).
DayLength == 2

\* Destination public keys (base58 strings).
Targets == {"T1", "T2"}

\* Amounts a caller may pass: lamports is any number, also zero or negative.
Amounts == (0 - 1) .. (MaxLamports + 1)

\* The callers of transferSOL; each issues one invocation, and the two may
\* overlap.
CallIds == {1, 2}

\* ------------------------------------------------------------------- state

VARIABLES
  balanceLamports,      \* state.balanceLamports
  dailySpentLamports,   \* state.dailySpentLamports
  dailySpentResetAt,    \* state.dailySpentResetAt
  transactionHistory,   \* state.transactionHistory
  isActive,             \* state.isActive
  policy,               \* state.metadata.policy
  ledgerLamports,       \* the account's balance on the ledger (Connection)
  now,                  \* the clock read by new Date()
  calls,                \* the transferSOL invocations and their positions
  validation,           \* the last direct validateTransfer call and its result
  lastControl,          \* the last of deactivate() / reactivate() to return
  auditLog,             \* the array the last getAuditLog() call returned
  lastUpdate,           \* the last updatePolicy call and the policy it met
  summary,              \* what the last getSummary() call returned
  wallets,              \* WalletManager.wallets, in insertion order
  fleetLedger,          \* the ledger's balance of each agent's account
  fleetCalls,           \* the transferSOL invocation of each agent's wallet
  airdrop,              \* the airdropToAgent / airdropToAllAgents call
  lastCall,             \* the last WalletManager call and how it ended
  fleetSummary,         \* what the last getFleetSummary() call returned
  resetMark,            \* length of transactionHistory at the last quota reset
  relay                 \* PaymentRelayAgent: its paymentQueue, and the
                        \* payments it has issued a transfer for

walletVars == << balanceLamports, dailySpentLamports, dailySpentResetAt,
                 transactionHistory, isActive, policy >>

fleetVars == << wallets, fleetLedger, fleetCalls, airdrop, lastCall,
               fleetSummary >>

vars == << balanceLamports, dailySpentLamports, dailySpentResetAt,
           transactionHistory, isActive, policy, ledgerLamports, now, calls,
           validation, lastControl, auditLog, lastUpdate, summary, wallets,
           fleetLedger, fleetCalls, airdrop, lastCall, fleetSummary,
           resetMark, relay >>

\* ------------------------------------------------------------ policy engine

\* SpendingPolicy; allowedTargets?: string[] is the pair (hasAllowedTargets,
\* allowedTargets): an absent whitelist has hasAllowedTargets = FALSE.
SpendingPolicies ==
  [ maxTransactionLamports : 0 .. MaxLamports,
    dailyLimitLamports : 0 .. MaxLamports,
    hasAllowedTargets : BOOLEAN,
    allowedTargets : SUBSET Targets,
    requiresApproval : BOOLEAN,
    approvalThresholdLamports : 0 .. MaxLamports ]

WellFormedPolicy(p) == ~p.hasAllowedTargets => p.allowedTargets = {}

ReasonNone == "undefined"
ReasonDeactivated == "Wallet is deactivated"
ReasonNotPositive == "Amount must be positive"
ReasonBalance == "Insufficient balance"
ReasonPerTx == "Exceeds per-transaction limit"
ReasonDaily == "Would exceed daily limit"
ReasonWhitelist == "Target is not in the allowed destinations whitelist"
ReasonApproval == "Requires human approval (above threshold)"

Blocked(reason) ==
  [allowed |-> FALSE, reason |-> reason, requiresApproval |-> FALSE]

Allowed == [allowed |-> TRUE, reason |-> ReasonNone, requiresApproval |-> FALSE]

AllowedWithApproval ==
  [allowed |-> TRUE, reason |-> ReasonNone, requiresApproval |-> TRUE]

Mut_RollingWindow(t) == t + DayLength

\* nextMidnight() called at time t: the first UTC midnight after t.
nextMidnight(t) == ((t \div DayLength) + 1) * DayLength

\* resetDailyLimitIfNeeded: the counter and the boundary it leaves behind.
ResetDue(t, resetAt) == t >= resetAt

Mut_ResetEveryValidation(t, resetAt, spent) == 0

SpentAfterReset(t, resetAt, spent) == IF ResetDue(t, resetAt) THEN 0 ELSE spent

ResetAtAfterReset(t, resetAt) ==
  IF ResetDue(t, resetAt) THEN nextMidnight(t) ELSE resetAt

\* The records written before the last reset: all of them when
\* resetDailyIfNeeded resets now, as many as before otherwise.
MarkAfterReset(t, resetAt, history, mark) ==
  IF ResetDue(t, resetAt) THEN Len(history) ELSE mark

\* The six blocking conditions of validateTransfer, each TRUE when the check
\* fails, and the approval condition.
Mut_BalanceOffByOne(lamports, balance) == lamports >= balance

FailsBalance(lamports, balance) == lamports > balance

Mut_PerTxReadsDailyLimit(lamports, p) == lamports > p.dailyLimitLamports

FailsPerTx(lamports, p) == lamports > p.maxTransactionLamports

Mut_DailyOffByOne(lamports, spent, p) == spent + lamports >= p.dailyLimitLamports

FailsDaily(lamports, spent, p) == spent + lamports > p.dailyLimitLamports

Mut_EmptyWhitelistIgnored(target, p) ==
  p.hasAllowedTargets /\ p.allowedTargets # {} /\ target \notin p.allowedTargets

FailsWhitelist(target, p) ==
  p.hasAllowedTargets /\ target \notin p.allowedTargets

Mut_ApprovalStrictlyAbove(lamports, p) ==
  lamports > p.approvalThresholdLamports /\ p.requiresApproval

NeedsApproval(lamports, p) ==
  lamports >= p.approvalThresholdLamports /\ p.requiresApproval

\* validateTransfer after resetDailyLimitIfNeeded has run: spent is the
\* counter the reset left behind.
Mut_ApprovalBeforeLimits(active, balance, spent, p, lamports, target) ==
  IF ~active THEN Blocked(ReasonDeactivated)
  ELSE IF lamports <= 0 THEN Blocked(ReasonNotPositive)
  ELSE IF NeedsApproval(lamports, p) THEN AllowedWithApproval
  ELSE IF FailsBalance(lamports, balance) THEN Blocked(ReasonBalance)
  ELSE IF FailsPerTx(lamports, p) THEN Blocked(ReasonPerTx)
  ELSE IF FailsDaily(lamports, spent, p) THEN Blocked(ReasonDaily)
  ELSE IF FailsWhitelist(target, p) THEN Blocked(ReasonWhitelist)
  ELSE Allowed

Mut_PerTxBeforeBalance(active, balance, spent, p, lamports, target) ==
  IF ~active THEN Blocked(ReasonDeactivated)
  ELSE IF lamports <= 0 THEN Blocked(ReasonNotPositive)
  ELSE IF FailsPerTx(lamports, p) THEN Blocked(ReasonPerTx)
  ELSE IF FailsBalance(lamports, balance) THEN Blocked(ReasonBalance)
  ELSE IF FailsDaily(lamports, spent, p) THEN Blocked(ReasonDaily)
  ELSE IF FailsWhitelist(target, p) THEN Blocked(ReasonWhitelist)
  ELSE IF NeedsApproval(lamports, p) THEN AllowedWithApproval
  ELSE Allowed

validateTransfer(active, balance, spent, p, lamports, target) ==
  IF ~active THEN Blocked(ReasonDeactivated)
  ELSE IF lamports <= 0 THEN Blocked(ReasonNotPositive)
  ELSE IF FailsBalance(lamports, balance) THEN Blocked(ReasonBalance)
  ELSE IF FailsPerTx(lamports, p) THEN Blocked(ReasonPerTx)
  ELSE IF FailsDaily(lamports, spent, p) THEN Blocked(ReasonDaily)
  ELSE IF FailsWhitelist(target, p) THEN Blocked(ReasonWhitelist)
  ELSE IF NeedsApproval(lamports, p) THEN AllowedWithApproval
  ELSE Allowed

Mut_DecisionIgnoresBalance(lamports, target) ==
  validateTransfer(isActive, MaxLamports + 1,
                   SpentAfterReset(now, dailySpentResetAt, dailySpentLamports),
                   policy, lamports, target)

\* The decision validateTransfer reaches in the current state at the current
\* time, reset included.
Decision(lamports, target) ==
  validateTransfer(isActive, balanceLamports,
                   SpentAfterReset(now, dailySpentResetAt, dailySpentLamports),
                   policy, lamports, target)

\* What a validateTransfer call read: the flag, the balance, the counter after
\* the reset and the policy.
Seen(active, balance, spent, p) ==
  [active |-> active, balance |-> balance, spent |-> spent, policy |-> p]

\* No getAuditLog() call has returned yet.  aliased tells whether the returned
\* array is the wallet's own transactionHistory array or a separate one.
NoAuditLog == [returned |-> FALSE, aliased |-> FALSE, items |-> << >>]

\* before is the counter and the boundary the call met.
NoValidation ==
  [called |-> FALSE, lamports |-> 0, target |-> "T1", result |-> Allowed,
   control |-> "none", seen |-> << >>, before |-> << >>]

\* The fields of SpendingPolicy a Partial<SpendingPolicy> can name.
PolicyFields ==
  { "maxTransactionLamports", "dailyLimitLamports", "allowedTargets",
    "requiresApproval", "approvalThresholdLamports" }

\* No updatePolicy call has been made yet.
NoUpdate == [called |-> FALSE, named |-> {}, values |-> << >>, before |-> << >>]

\* No getSummary() call has returned yet.
NoSummary ==
  [returned |-> FALSE, balanceLamports |-> 0, dailySpentLamports |-> 0,
   dailyLimitLamports |-> 0, totalTx |-> 0, successTx |-> 0, blockedTx |-> 0,
   isActive |-> TRUE]

\* --------------------------------------------------------- manager's state

\* The agent ids callers pass to the WalletManager.
AgentIds == {"a1", "a2"}

\* No airdropToAgent or airdropToAllAgents call is running.  all tells the
\* two apart; index is the position of the Map iterator; attempts lists the
\* agents requestAirdrop was called for, failures those whose funding threw;
\* raised tells whether the call rejected.
NoAirdrop ==
  [pc |-> "idle", all |-> FALSE, delay |-> FALSE, index |-> 0,
   agentId |-> "a1", lamports |-> 0, attempts |-> << >>,
   failures |-> << >>, raised |-> FALSE]

ErrNone == "none"
ErrExists == "Agent wallet with ID already exists"
ErrNoWallet == "No wallet found for agent"

\* No WalletManager call has been made yet.  returned is the keypair of the
\* wallet the call returned (0: none), configs the agentIds of the list a
\* createAgentFleet call was given.
NoLastCall ==
  [op |-> "none", agentId |-> "a1", error |-> ErrNone, returned |-> 0,
   configs |-> << >>]

\* A success ratio num / den; den = 0 is NaN.
Ratio(num, den) == [num |-> num, den |-> den]

\* No getFleetSummary() call has returned yet.
NoFleetSummary ==
  [returned |-> FALSE, totalAgents |-> 0, activeAgents |-> 0,
   totalBalanceLamports |-> 0, totalTransactions |-> 0,
   successRate |-> Ratio(0, 1)]

\* A WalletManager as its constructor leaves it, no call made.
NoManager ==
  /\ wallets = << >>
  /\ fleetLedger = [a \in AgentIds |-> 0]
  /\ fleetCalls = [a \in AgentIds |-> "idle"]
  /\ airdrop = NoAirdrop
  /\ lastCall = NoLastCall
  /\ fleetSummary = NoFleetSummary

\* A PaymentRelayAgent as its constructor leaves it: an empty paymentQueue,
\* no payment taken off it.
NoRelay == [queue |-> << >>, issued |-> << >>]

\* ------------------------------------------------------- transfer lifecycle

\* A transferSOL invocation: its arguments, the await it is suspended at (pc),
\* how it ended (outcome), and what it has done so far: the records it
\* appended, whether it signed, whether its broadcast was confirmed, whether
\* the policy held for its request when it was decided (policyOk), the
\* balance and counter when it was called (pre, kept for the first invocation
\* while it is in flight), and whether both had these values again when it
\* ended (unchanged), and policy.maxTransactionLamports as validateTransfer
\* read it for the request (validatedMax).  caller names who issued it:
\* direct code, or the act operation of an agent.
NoCall ==
  [pc |-> "idle", caller |-> "direct", to |-> "T1", lamports |-> 0,
   skipPolicyCheck |-> FALSE,
   appended |-> 0, outcome |-> "none", signed |-> FALSE, confirmed |-> FALSE,
   policyOk |-> TRUE, validatedMax |-> 0, pre |-> << >>,
   unchanged |-> TRUE]

\* Amounts the callers of transferSOL pass.
TransferAmounts == 0 .. MaxLamports

Mut_RecordOmitsReason(signature, i, status, reason) ==
  [signature |-> signature, to |-> calls[i].to, lamports |-> calls[i].lamports,
   status |-> status, reason |-> ReasonNone]

\* The TransactionRecord invocation i writes; a record without a reason has
\* reason = ReasonNone.
Record(signature, i, status, reason) ==
  [signature |-> signature, to |-> calls[i].to, lamports |-> calls[i].lamports,
   status |-> status, reason |-> reason]

\* The invocation ends: it returns its record (or rejects).
Ended(c, outcome, balance, spent) ==
  [c EXCEPT !.pc = "done", !.outcome = outcome, !.pre = << >>,
            !.unchanged = (c.pre = << >> \/ c.pre = << balance, spent >>)]

\* transferSOL(destinationPubkey, lamports, skipPolicyCheck) is called by
\* caller and suspends in refreshBalance at connection.getBalance.
Invoke(i, caller, to, lamports, skip) ==
  /\ calls[i].pc = "idle"
  /\ \A j \in CallIds : j < i => calls[j].pc # "idle"
  /\ calls' = [calls EXCEPT ![i] =
       [NoCall EXCEPT !.pc = "getBalance", !.caller = caller, !.to = to,
                      !.lamports = lamports, !.skipPolicyCheck = skip,
                      !.pre = IF i = 1
                               THEN << balanceLamports, dailySpentLamports >>
                               ELSE << >>]]
  /\ UNCHANGED << walletVars, ledgerLamports, now, validation, lastControl,
                  auditLog,
                      lastUpdate, summary, fleetVars, resetMark >>

\* A direct call of transferSOL, with or without the third argument.
TransferSOL(i, to, lamports, skip) ==
  /\ Invoke(i, "direct", to, lamports, skip)
  /\ UNCHANGED relay

\* The opening refreshBalance: getBalance resolves and the balance is stored.
GetBalanceResolves(i) ==
  /\ calls[i].pc = "getBalance"
  /\ balanceLamports' = ledgerLamports
  /\ calls' = [calls EXCEPT ![i].pc = "refreshed"]
  /\ UNCHANGED << dailySpentLamports, dailySpentResetAt, transactionHistory,
                  isActive, policy, ledgerLamports, now, validation,
                  lastControl, auditLog,
                      lastUpdate, summary, fleetVars, resetMark, relay >>

\* The opening refreshBalance rejects: it is outside the try block, so
\* transferSOL rejects and no record is written.
GetBalanceRejects(i) ==
  /\ calls[i].pc = "getBalance"
  /\ calls' = [calls EXCEPT ![i] =
       Ended(calls[i], "rejected", balanceLamports, dailySpentLamports)]
  /\ UNCHANGED << walletVars, ledgerLamports, now, validation, lastControl,
                  auditLog,
                      lastUpdate, summary, fleetVars, resetMark, relay >>

Mut_ApprovalProceedsToSign(i) ==
  LET c == calls[i]
      v == IF c.skipPolicyCheck THEN Allowed ELSE Decision(c.lamports, c.to)
      spent == IF c.skipPolicyCheck THEN dailySpentLamports
               ELSE SpentAfterReset(now, dailySpentResetAt, dailySpentLamports)
      d == [c EXCEPT !.policyOk = Decision(c.lamports, c.to).allowed,
                     !.validatedMax = IF c.skipPolicyCheck THEN @
                                      ELSE policy.maxTransactionLamports]
  IN /\ c.pc = "refreshed"
     /\ dailySpentLamports' = spent
     /\ resetMark' =
          IF c.skipPolicyCheck THEN resetMark
          ELSE MarkAfterReset(now, dailySpentResetAt, transactionHistory,
                              resetMark)
     /\ dailySpentResetAt' =
          IF c.skipPolicyCheck THEN dailySpentResetAt
          ELSE ResetAtAfterReset(now, dailySpentResetAt)
     /\ IF ~v.allowed
          THEN /\ transactionHistory' = Append(transactionHistory,
                    Record("BLOCKED", i, "blocked", v.reason))
               /\ calls' = [calls EXCEPT ![i] =
                    Ended([d EXCEPT !.appended = @ + 1], "blocked",
                          balanceLamports, spent)]
          ELSE /\ transactionHistory' =
                    IF v.requiresApproval
                      THEN Append(transactionHistory,
                             Record("PENDING_APPROVAL", i, "blocked",
                                    ReasonApproval))
                      ELSE transactionHistory
               /\ calls' = [calls EXCEPT ![i] =
                    [d EXCEPT !.pc = "getLatestBlockhash",
                              !.appended = IF v.requiresApproval
                                             THEN @ + 1 ELSE @,
                              !.outcome = IF v.requiresApproval
                                            THEN "approval" ELSE @]]
     /\ UNCHANGED << balanceLamports, isActive, policy, ledgerLamports, now,
                     validation, lastControl, auditLog,
                      lastUpdate, summary, fleetVars, relay >>

Mut_ValidateSuspendsBeforeRecord(i) ==
  LET c == calls[i]
      v == IF c.skipPolicyCheck THEN Allowed ELSE Decision(c.lamports, c.to)
      d == [c EXCEPT !.policyOk = Decision(c.lamports, c.to).allowed,
                     !.validatedMax = IF c.skipPolicyCheck THEN @
                                      ELSE policy.maxTransactionLamports]
  IN /\ c.pc = "refreshed"
     /\ dailySpentLamports' =
          IF c.skipPolicyCheck THEN dailySpentLamports
          ELSE SpentAfterReset(now, dailySpentResetAt, dailySpentLamports)
     /\ resetMark' =
          IF c.skipPolicyCheck THEN resetMark
          ELSE MarkAfterReset(now, dailySpentResetAt, transactionHistory,
                              resetMark)
     /\ dailySpentResetAt' =
          IF c.skipPolicyCheck THEN dailySpentResetAt
          ELSE ResetAtAfterReset(now, dailySpentResetAt)
     /\ calls' = [calls EXCEPT ![i] =
          [d EXCEPT !.pc = IF v.allowed /\ ~v.requiresApproval
                             THEN "getLatestBlockhash" ELSE "recording"]]
     /\ UNCHANGED << balanceLamports, transactionHistory, isActive, policy,
                     ledgerLamports, now, validation, lastControl, auditLog,
                     lastUpdate, summary, fleetVars, relay >>

\* transferSOL resumes after the refresh: validation (unless skipped), then
\* the blocked record, the pending-approval record, or the try block up to
\* connection.getLatestBlockhash.
Validate(i) ==
  LET c == calls[i]
      v == IF c.skipPolicyCheck THEN Allowed ELSE Decision(c.lamports, c.to)
      spent == IF c.skipPolicyCheck THEN dailySpentLamports
               ELSE SpentAfterReset(now, dailySpentResetAt, dailySpentLamports)
      d == [c EXCEPT !.policyOk = Decision(c.lamports, c.to).allowed,
                     !.validatedMax = IF c.skipPolicyCheck THEN @
                                      ELSE policy.maxTransactionLamports]
  IN /\ c.pc = "refreshed"
     /\ dailySpentLamports' = spent
     /\ resetMark' =
          IF c.skipPolicyCheck THEN resetMark
          ELSE MarkAfterReset(now, dailySpentResetAt, transactionHistory,
                              resetMark)
     /\ dailySpentResetAt' =
          IF c.skipPolicyCheck THEN dailySpentResetAt
          ELSE ResetAtAfterReset(now, dailySpentResetAt)
     /\ IF ~v.allowed
          THEN /\ transactionHistory' = Append(transactionHistory,
                    Record("BLOCKED", i, "blocked", v.reason))
               /\ calls' = [calls EXCEPT ![i] =
                    Ended([d EXCEPT !.appended = @ + 1], "blocked",
                          balanceLamports, spent)]
        ELSE IF v.requiresApproval
          THEN /\ transactionHistory' = Append(transactionHistory,
                    Record("PENDING_APPROVAL", i, "blocked", ReasonApproval))
               /\ calls' = [calls EXCEPT ![i] =
                    Ended([d EXCEPT !.appended = @ + 1], "approval",
                          balanceLamports, spent)]
          ELSE /\ transactionHistory' = transactionHistory
               /\ calls' = [calls EXCEPT ![i] =
                    [d EXCEPT !.pc = "getLatestBlockhash"]]
     /\ UNCHANGED << balanceLamports, isActive, policy, ledgerLamports, now,
                     validation, lastControl, auditLog,
                      lastUpdate, summary, fleetVars, relay >>

Mut_FailedCountsAsSpent(i) ==
  /\ transactionHistory' = Append(transactionHistory,
       Record("FAILED", i, "failed", "err.message"))
  /\ dailySpentLamports' = dailySpentLamports + calls[i].lamports
  /\ calls' = [calls EXCEPT ![i] =
       Ended([calls[i] EXCEPT !.appended = @ + 1], "failed",
             balanceLamports, dailySpentLamports)]
  /\ UNCHANGED << balanceLamports, dailySpentResetAt, isActive, policy,
                  ledgerLamports, now, validation, lastControl, auditLog,
                  lastUpdate, summary, fleetVars, resetMark, relay >>

Mut_CatchDeactivates(i) ==
  /\ transactionHistory' = Append(transactionHistory,
       Record("FAILED", i, "failed", "err.message"))
  /\ isActive' = FALSE
  /\ calls' = [calls EXCEPT ![i] =
       Ended([calls[i] EXCEPT !.appended = @ + 1], "failed",
             balanceLamports, dailySpentLamports)]
  /\ UNCHANGED << balanceLamports, dailySpentLamports, dailySpentResetAt,
                  policy, ledgerLamports, now, validation, lastControl,
                  auditLog, lastUpdate, summary, fleetVars, resetMark, relay >>

Mut_CatchRewritesLastRecord(i) ==
  /\ transactionHistory' =
       IF transactionHistory = << >>
         THEN << Record("FAILED", i, "failed", "err.message") >>
         ELSE [transactionHistory EXCEPT ![Len(transactionHistory)] =
                 Record("FAILED", i, "failed", "err.message")]
  /\ calls' = [calls EXCEPT ![i] =
       Ended([calls[i] EXCEPT !.appended = @ + 1], "failed",
             balanceLamports, dailySpentLamports)]
  /\ UNCHANGED << balanceLamports, dailySpentLamports, dailySpentResetAt,
                  isActive, policy, ledgerLamports, now, validation,
                  lastControl, auditLog,
                      lastUpdate, summary, fleetVars, resetMark, relay >>

\* The catch block: a FAILED record carrying the error message.
Catch(i) ==
  /\ transactionHistory' = Append(transactionHistory,
       Record("FAILED", i, "failed", "err.message"))
  /\ calls' = [calls EXCEPT ![i] =
       Ended([calls[i] EXCEPT !.appended = @ + 1], "failed",
             balanceLamports, dailySpentLamports)]
  /\ UNCHANGED << balanceLamports, dailySpentLamports, dailySpentResetAt,
                  isActive, policy, ledgerLamports, now, validation,
                  lastControl, auditLog,
                      lastUpdate, summary, fleetVars, resetMark, relay >>

Mut_BroadcastsUnsigned(i) ==
  /\ calls[i].pc = "getLatestBlockhash"
  /\ calls' = [calls EXCEPT ![i].pc = "sendAndConfirm"]
  /\ UNCHANGED << walletVars, ledgerLamports, now, validation, lastControl,
                  auditLog, lastUpdate, summary, fleetVars, resetMark, relay >>

\* getLatestBlockhash resolves; the transaction is built and signed and
\* sendAndConfirmTransaction is called.
GetLatestBlockhashResolves(i) ==
  /\ calls[i].pc = "getLatestBlockhash"
  /\ calls' = [calls EXCEPT ![i].pc = "sendAndConfirm", ![i].signed = TRUE]
  /\ UNCHANGED << walletVars, ledgerLamports, now, validation, lastControl,
                  auditLog,
                      lastUpdate, summary, fleetVars, resetMark, relay >>

\* getLatestBlockhash rejects, or building or signing the transaction throws.
GetLatestBlockhashRejects(i) ==
  /\ calls[i].pc = "getLatestBlockhash"
  /\ Catch(i)

Mut_SuccessSkipsSpendTracker(i) ==
  /\ calls[i].pc = "sendAndConfirm"
  /\ calls[i].lamports <= ledgerLamports
  /\ ledgerLamports' = ledgerLamports - calls[i].lamports
  /\ dailySpentLamports' = dailySpentLamports
  /\ transactionHistory' = Append(transactionHistory,
       Record("SIGNATURE", i, "success", ReasonNone))
  /\ calls' = [calls EXCEPT ![i].pc = "getBalanceAfter",
                                         ![i].confirmed = TRUE,
                                         ![i].appended = @ + 1]
  /\ UNCHANGED << balanceLamports, dailySpentResetAt, isActive, policy, now,
                  validation, lastControl, auditLog,
                      lastUpdate, summary, fleetVars, resetMark, relay >>

\* sendAndConfirmTransaction resolves: the ledger moved the lamports; the
\* spending tracker is updated, the success record appended and
\* refreshBalance called.
SendAndConfirmResolves(i) ==
  /\ calls[i].pc = "sendAndConfirm"
  /\ calls[i].lamports <= ledgerLamports
  /\ ledgerLamports' = ledgerLamports - calls[i].lamports
  /\ dailySpentLamports' = dailySpentLamports + calls[i].lamports
  /\ transactionHistory' = Append(transactionHistory,
       Record("SIGNATURE", i, "success", ReasonNone))
  /\ calls' = [calls EXCEPT ![i].pc = "getBalanceAfter",
                                         ![i].confirmed = TRUE,
                                         ![i].appended = @ + 1]
  /\ UNCHANGED << balanceLamports, dailySpentResetAt, isActive, policy, now,
                  validation, lastControl, auditLog,
                      lastUpdate, summary, fleetVars, resetMark, relay >>

Mut_SpendCountedBeforeBroadcast(i) ==
  /\ calls[i].pc = "sendAndConfirm"
  /\ transactionHistory' = Append(transactionHistory,
       Record("FAILED", i, "failed", "err.message"))
  /\ dailySpentLamports' = dailySpentLamports + calls[i].lamports
  /\ calls' = [calls EXCEPT ![i] =
       Ended([calls[i] EXCEPT !.appended = @ + 1], "failed",
             balanceLamports, dailySpentLamports')]
  /\ UNCHANGED << balanceLamports, dailySpentResetAt, isActive, policy,
                  ledgerLamports, now, validation, lastControl, auditLog,
                      lastUpdate, summary, fleetVars, resetMark, relay >>

Mut_BroadcastFailureRetries(i) ==
  /\ calls[i].pc = "sendAndConfirm"
  /\ calls' = [calls EXCEPT ![i].pc = "getLatestBlockhash"]
  /\ UNCHANGED << walletVars, ledgerLamports, now, validation, lastControl,
                  auditLog,
                      lastUpdate, summary, fleetVars, resetMark, relay >>

\* sendAndConfirmTransaction rejects.
SendAndConfirmRejects(i) ==
  /\ calls[i].pc = "sendAndConfirm"
  /\ Catch(i)

\* The closing refreshBalance resolves and transferSOL returns the success
\* record.
GetBalanceAfterResolves(i) ==
  /\ calls[i].pc = "getBalanceAfter"
  /\ balanceLamports' = ledgerLamports
  /\ calls' = [calls EXCEPT ![i] =
       Ended(calls[i], "success", ledgerLamports, dailySpentLamports)]
  /\ UNCHANGED << dailySpentLamports, dailySpentResetAt, transactionHistory,
                  isActive, policy, ledgerLamports, now, validation,
                  lastControl, auditLog,
                      lastUpdate, summary, fleetVars, resetMark, relay >>

\* The closing refreshBalance rejects inside the try block: the catch block
\* runs after the success record was appended.
GetBalanceAfterRejects(i) ==
  /\ calls[i].pc = "getBalanceAfter"
  /\ Catch(i)

Mut_DeactivatedSkipsReset(lamports, target) ==
  /\ validation' = [called |-> TRUE, lamports |-> lamports, target |-> target,
                    result |-> Decision(lamports, target),
                    control |-> lastControl,
                    seen |-> Seen(isActive, balanceLamports,
                                  SpentAfterReset(now, dailySpentResetAt,
                                                  dailySpentLamports),
                                  policy),
                    before |-> [spent |-> dailySpentLamports,
                                resetAt |-> dailySpentResetAt]]
  /\ dailySpentLamports' =
       IF isActive
         THEN SpentAfterReset(now, dailySpentResetAt, dailySpentLamports)
         ELSE dailySpentLamports
  /\ resetMark' =
       IF isActive
         THEN MarkAfterReset(now, dailySpentResetAt, transactionHistory,
                             resetMark)
         ELSE resetMark
  /\ dailySpentResetAt' =
       IF isActive THEN ResetAtAfterReset(now, dailySpentResetAt)
       ELSE dailySpentResetAt
  /\ UNCHANGED << balanceLamports, transactionHistory, isActive, policy,
                  ledgerLamports, now, calls, lastControl, auditLog,
                  lastUpdate, summary, fleetVars, relay >>

\* A direct call wallet.validateTransfer(lamports, target).
ValidateTransfer(lamports, target) ==
  /\ validation' = [called |-> TRUE, lamports |-> lamports, target |-> target,
                    result |-> Decision(lamports, target),
                    control |-> lastControl,
                    seen |-> Seen(isActive, balanceLamports,
                                  SpentAfterReset(now, dailySpentResetAt,
                                                  dailySpentLamports),
                                  policy),
                    before |-> [spent |-> dailySpentLamports,
                                resetAt |-> dailySpentResetAt]]
  /\ dailySpentLamports' =
       SpentAfterReset(now, dailySpentResetAt, dailySpentLamports)
  /\ resetMark' = MarkAfterReset(now, dailySpentResetAt, transactionHistory,
                                 resetMark)
  /\ dailySpentResetAt' = ResetAtAfterReset(now, dailySpentResetAt)
  /\ UNCHANGED << balanceLamports, transactionHistory, isActive, policy,
                  ledgerLamports, now, calls, lastControl, auditLog,
                      lastUpdate, summary, fleetVars, relay >>

\* ------------------------------------------------------------------- agents

\* Longest paymentQueue of the PaymentRelayAgent.
MaxQueue == 2

\* LiquidityProviderAgent.act for a "rebalance" decision with a non-zero
\* lamounts and an active peer: transferSOL(lowestPeer.publicKey, lamounts).
LiquidityProviderAct(i, peer, lamounts) ==
  /\ lamounts # 0
  /\ Invoke(i, "liquidity-provider", peer, lamounts, FALSE)
  /\ UNCHANGED relay

\* One iteration of TreasuryManagerAgent.act's loop over the active peers:
\* transferSOL(peer.publicKey, perPeer), perPeer being the floor of the
\* decision's amount divided by the number of peers (zero included).
TreasuryManagerAct(i, peer, perPeer) ==
  /\ Invoke(i, "treasury-manager", peer, perPeer, FALSE)
  /\ UNCHANGED relay

\* The payment act takes off the queue and issues a transfer for.
Issue(payment) ==
  [queue |-> Tail(relay.queue), issued |-> Append(relay.issued, payment.memo)]

Mut_RelayPassesBypass(i, to, lamports) ==
  /\ relay.queue # << >>
  /\ Head(relay.queue).to = to
  /\ Head(relay.queue).lamports = lamports
  /\ relay' = Issue(Head(relay.queue))
  /\ Invoke(i, "payment-relay", to, lamports, TRUE)

Mut_RelayRetriesPayment(i, to, lamports) ==
  /\ relay.queue # << >>
  /\ Head(relay.queue).to = to
  /\ Head(relay.queue).lamports = lamports
  /\ relay' = [Issue(Head(relay.queue)) EXCEPT !.queue = relay.queue]
  /\ Invoke(i, "payment-relay", to, lamports, FALSE)

\* The memo of the next payment a caller queues: callers number their
\* payments.
NextMemo == Len(relay.issued) + Len(relay.queue) + 1

\* PaymentRelayAgent.queuePayment(to, lamports, memo): the payment is pushed
\* onto paymentQueue.
queuePayment(to, lamports, memo) ==
  /\ Len(relay.queue) < MaxQueue
  /\ relay' = [relay EXCEPT !.queue =
       Append(@, [to |-> to, lamports |-> lamports, memo |-> memo])]
  /\ UNCHANGED << walletVars, ledgerLamports, now, calls, validation,
                  lastControl, auditLog, lastUpdate, summary, fleetVars,
                  resetMark >>

\* PaymentRelayAgent.act for a "transfer" decision and a non-empty queue: the
\* payment at the head of the queue is shifted off, then
\* transferSOL(payment.to, payment.lamports) is called; to and lamports are
\* those of the head, whatever the decision names.  With a "hold" decision or
\* an empty queue act returns null and changes nothing.
PaymentRelayAct(i, to, lamports) ==
  /\ relay.queue # << >>
  /\ Head(relay.queue).to = to
  /\ Head(relay.queue).lamports = lamports
  /\ relay' = Issue(Head(relay.queue))
  /\ Invoke(i, "payment-relay", to, lamports, FALSE)

\* ------------------------------------------------------------------ audit log

\* Longest array a caller of getAuditLog builds from the one it was given.
MaxAuditLen == 3

Mut_AuditLogReturnsHistoryItself ==
  /\ auditLog' = [returned |-> TRUE, aliased |-> TRUE,
                  items |-> transactionHistory]
  /\ UNCHANGED << walletVars, ledgerLamports, now, calls, validation,
                  lastControl, lastUpdate, summary, fleetVars, resetMark, relay >>

\* getAuditLog(): a new array holding the records of transactionHistory.
getAuditLog ==
  /\ auditLog' = [returned |-> TRUE, aliased |-> FALSE,
                  items |-> transactionHistory]
  /\ UNCHANGED << walletVars, ledgerLamports, now, calls, validation,
                  lastControl, lastUpdate, summary, fleetVars, resetMark, relay >>

\* The caller changes the array getAuditLog gave it; were that array the
\* wallet's own, transactionHistory would change with it.
ReturnedArrayBecomes(items) ==
  /\ auditLog.returned
  /\ auditLog' = [auditLog EXCEPT !.items = items]
  /\ transactionHistory' =
       IF auditLog.aliased THEN items ELSE transactionHistory
  /\ UNCHANGED << balanceLamports, dailySpentLamports, dailySpentResetAt,
                  isActive, policy, ledgerLamports, now, calls, validation,
                  lastControl, lastUpdate, summary, fleetVars, resetMark, relay >>

\* log.push(record)
AuditLogPush(record) ==
  /\ Len(auditLog.items) < MaxAuditLen
  /\ ReturnedArrayBecomes(Append(auditLog.items, record))

\* log.pop()
AuditLogPop ==
  /\ auditLog.items # << >>
  /\ ReturnedArrayBecomes(SubSeq(auditLog.items, 1, Len(auditLog.items) - 1))

\* log.reverse()
AuditLogReverse ==
  /\ Len(auditLog.items) >= 2
  /\ ReturnedArrayBecomes(
       [k \in 1 .. Len(auditLog.items) |->
          auditLog.items[Len(auditLog.items) + 1 - k]])

\* ------------------------------------------------------- control operations

Mut_DeactivateForgetsFlag ==
  /\ isActive' = isActive
  /\ lastControl' = "deactivate"
  /\ UNCHANGED << balanceLamports, dailySpentLamports, dailySpentResetAt,
                  transactionHistory, policy, ledgerLamports, now, calls,
                  validation, auditLog,
                      lastUpdate, summary, fleetVars, resetMark, relay >>

deactivate ==
  /\ isActive' = FALSE
  /\ lastControl' = "deactivate"
  /\ UNCHANGED << balanceLamports, dailySpentLamports, dailySpentResetAt,
                  transactionHistory, policy, ledgerLamports, now, calls,
                  validation, auditLog,
                      lastUpdate, summary, fleetVars, resetMark, relay >>

reactivate ==
  /\ isActive' = TRUE
  /\ lastControl' = "reactivate"
  /\ UNCHANGED << balanceLamports, dailySpentLamports, dailySpentResetAt,
                  transactionHistory, policy, ledgerLamports, now, calls,
                  validation, auditLog,
                      lastUpdate, summary, fleetVars, resetMark, relay >>

\* { ...p, ...newPolicy }: newPolicy names the fields in named and gives them
\* the values they have in values; allowedTargets stands for the whitelist
\* and its presence.
MergePolicy(p, named, values) ==
  [ maxTransactionLamports |->
      IF "maxTransactionLamports" \in named
        THEN values.maxTransactionLamports ELSE p.maxTransactionLamports,
    dailyLimitLamports |->
      IF "dailyLimitLamports" \in named
        THEN values.dailyLimitLamports ELSE p.dailyLimitLamports,
    hasAllowedTargets |->
      IF "allowedTargets" \in named
        THEN values.hasAllowedTargets ELSE p.hasAllowedTargets,
    allowedTargets |->
      IF "allowedTargets" \in named
        THEN values.allowedTargets ELSE p.allowedTargets,
    requiresApproval |->
      IF "requiresApproval" \in named
        THEN values.requiresApproval ELSE p.requiresApproval,
    approvalThresholdLamports |->
      IF "approvalThresholdLamports" \in named
        THEN values.approvalThresholdLamports
        ELSE p.approvalThresholdLamports ]

Mut_UpdateReplacesPolicy(named, values) ==
  /\ policy' = values
  /\ lastUpdate' = [called |-> TRUE, named |-> named, values |-> values,
                    before |-> policy]
  /\ UNCHANGED << balanceLamports, dailySpentLamports, dailySpentResetAt,
                  transactionHistory, isActive, ledgerLamports, now, calls,
                  validation, lastControl, auditLog, summary, fleetVars, resetMark, relay >>

\* updatePolicy(newPolicy)
updatePolicy(named, values) ==
  /\ policy' = MergePolicy(policy, named, values)
  /\ lastUpdate' = [called |-> TRUE, named |-> named, values |-> values,
                    before |-> policy]
  /\ UNCHANGED << balanceLamports, dailySpentLamports, dailySpentResetAt,
                  transactionHistory, isActive, ledgerLamports, now, calls,
                  validation, lastControl, auditLog, summary, fleetVars, resetMark, relay >>

\* The records of the history with the given status.
WithStatus(history, status) ==
  { k \in 1 .. Len(history) : history[k].status = status }

\* getSummary(): the amounts are reported in SOL, lamports / LAMPORTS_PER_SOL;
\* the summary holds the lamports they are computed from.
getSummary ==
  /\ summary' =
       [returned |-> TRUE, balanceLamports |-> balanceLamports,
        dailySpentLamports |-> dailySpentLamports,
        dailyLimitLamports |-> policy.dailyLimitLamports,
        totalTx |-> Len(transactionHistory),
        successTx |-> Cardinality(WithStatus(transactionHistory, "success")),
        blockedTx |-> Cardinality(WithStatus(transactionHistory, "blocked")),
        isActive |-> isActive]
  /\ UNCHANGED << walletVars, ledgerLamports, now, calls, validation,
                  lastControl, auditLog, lastUpdate, fleetVars, resetMark, relay >>

\* A direct wallet.refreshBalance() whose getBalance resolves.
refreshBalance ==
  /\ balanceLamports' = ledgerLamports
  /\ UNCHANGED << dailySpentLamports, dailySpentResetAt, transactionHistory,
                  isActive, policy, ledgerLamports, now, calls, validation,
                  lastControl, auditLog,
                      lastUpdate, summary, fleetVars, resetMark, relay >>

\* The funding of the wallet by WalletManager.airdropToAgent, as the wallet
\* meets it: the airdrop of lamports is confirmed on the ledger; the manager
\* then calls the wallet's refreshBalance.
AirdropConfirmed(lamports) ==
  /\ ledgerLamports + lamports <= MaxLamports
  /\ ledgerLamports' = ledgerLamports + lamports
  /\ UNCHANGED << walletVars, now, calls, validation, lastControl, auditLog,
                  lastUpdate, summary, fleetVars, resetMark, relay >>

\* ---------------------------------------------------------------- environment

\* The clock advances.
Tick ==
  /\ now < MaxTime
  /\ now' = now + 1
  /\ UNCHANGED << walletVars, ledgerLamports, calls, validation, lastControl,
                  auditLog,
                      lastUpdate, summary, fleetVars, resetMark, relay >>

\* ------------------------------------------- specification of the policy engine

\* Reset boundaries a wallet can hold at time t: a UTC midnight, never later
\* than the next one.
ResetBoundaries(t) ==
  { m \in DayLength .. nextMidnight(t) : m % DayLength = 0 }

\* Times validateTransfer is called at: up to the middle of the day that
\* starts at MaxTime.
PolicyTimes == 0 .. (MaxTime + 1)

\* Any wallet state: the balance is whatever the ledger reported, the counter
\* whatever was spent, the policy whatever the constructor was given.
InitPolicy ==
  /\ balanceLamports \in 0 .. MaxLamports
  /\ dailySpentLamports \in 0 .. MaxLamports
  /\ now \in PolicyTimes
  /\ dailySpentResetAt \in ResetBoundaries(now)
  /\ transactionHistory = << >>
  /\ isActive \in BOOLEAN
  /\ policy \in { p \in SpendingPolicies : WellFormedPolicy(p) }
  /\ ledgerLamports = balanceLamports
  /\ calls = [i \in CallIds |-> NoCall]
  /\ validation = NoValidation
  /\ lastControl = "none"
  /\ auditLog = NoAuditLog
  /\ lastUpdate = NoUpdate
  /\ summary = NoSummary
  /\ resetMark = 0
  /\ relay = NoRelay
  /\ NoManager

NextPolicy == \E lamports \in Amounts, target \in Targets :
                ValidateTransfer(lamports, target)

SpecPolicy == InitPolicy /\ [][NextPolicy]_vars

\* --------------------------------------------- specification of the wallet

\* The policies wallets are constructed with: a cap below the approval
\* threshold (the shape of DEFAULT_POLICY), and a whitelisting policy whose
\* threshold is within the cap.
InitialPolicies ==
  { [maxTransactionLamports |-> 1, dailyLimitLamports |-> MaxLamports,
     hasAllowedTargets |-> FALSE, allowedTargets |-> {},
     requiresApproval |-> TRUE, approvalThresholdLamports |-> MaxLamports],
    [maxTransactionLamports |-> MaxLamports, dailyLimitLamports |-> MaxLamports,
     hasAllowedTargets |-> TRUE, allowedTargets |-> {"T1"},
     requiresApproval |-> TRUE, approvalThresholdLamports |-> MaxLamports] }

\* The wallet as its constructor leaves it.
Init ==
  /\ balanceLamports = 0
  /\ dailySpentLamports = 0
  /\ now = DayLength - 1
  /\ dailySpentResetAt = nextMidnight(now)
  /\ transactionHistory = << >>
  /\ isActive = TRUE
  /\ policy \in InitialPolicies
  /\ ledgerLamports \in 0 .. MaxLamports
  /\ calls = [i \in CallIds |-> NoCall]
  /\ validation = NoValidation
  /\ lastControl = "none"
  /\ auditLog = NoAuditLog
  /\ lastUpdate = NoUpdate
  /\ summary = NoSummary
  /\ resetMark = 0
  /\ relay = NoRelay
  /\ NoManager

Next ==
  \/ \E i \in CallIds, to \in Targets, lamports \in TransferAmounts,
        skip \in BOOLEAN : TransferSOL(i, to, lamports, skip)
  \/ \E i \in CallIds : GetBalanceResolves(i)
  \/ \E i \in CallIds : GetBalanceRejects(i)
  \/ \E i \in CallIds : Validate(i)
  \/ \E i \in CallIds : GetLatestBlockhashResolves(i)
  \/ \E i \in CallIds : GetLatestBlockhashRejects(i)
  \/ \E i \in CallIds : SendAndConfirmResolves(i)
  \/ \E i \in CallIds : SendAndConfirmRejects(i)
  \/ \E i \in CallIds : GetBalanceAfterResolves(i)
  \/ \E i \in CallIds : GetBalanceAfterRejects(i)
  \/ deactivate
  \/ reactivate
  \/ refreshBalance
  \/ Tick

Spec == Init /\ [][Next]_vars

\* ----------------------------- specification of the synchronous wallet calls

\* The wallet driven through its synchronous interface: validateTransfer,
\* deactivate and reactivate, between balance refreshes and clock ticks.
NextControl ==
  \/ \E lamports \in Amounts, target \in Targets :
        ValidateTransfer(lamports, target)
  \/ deactivate
  \/ reactivate
  \/ refreshBalance
  \/ Tick

SpecControl == Init /\ [][NextControl]_vars

\* ------------------------------------- specification of the agents' wallet use

\* The wallet driven by the act operations of the three agents and by direct
\* calls of transferSOL, with the ledger resolving or rejecting each await.
\* The relay is handed a payment of one lamport whenever its queue has run
\* empty.
NextAgents ==
  \/ \E i \in CallIds, to \in Targets, lamports \in TransferAmounts,
        skip \in BOOLEAN : TransferSOL(i, to, lamports, skip)
  \/ \E i \in CallIds, peer \in Targets, lamounts \in TransferAmounts :
        LiquidityProviderAct(i, peer, lamounts)
  \/ \E i \in CallIds, peer \in Targets, perPeer \in TransferAmounts :
        TreasuryManagerAct(i, peer, perPeer)
  \/ \E to \in Targets :
        relay.queue = << >> /\ queuePayment(to, 1, NextMemo)
  \/ \E i \in CallIds, to \in Targets, lamports \in TransferAmounts :
        PaymentRelayAct(i, to, lamports)
  \/ \E i \in CallIds : GetBalanceResolves(i)
  \/ \E i \in CallIds : GetBalanceRejects(i)
  \/ \E i \in CallIds : Validate(i)
  \/ \E i \in CallIds : GetLatestBlockhashResolves(i)
  \/ \E i \in CallIds : GetLatestBlockhashRejects(i)
  \/ \E i \in CallIds : SendAndConfirmResolves(i)
  \/ \E i \in CallIds : SendAndConfirmRejects(i)
  \/ \E i \in CallIds : GetBalanceAfterResolves(i)
  \/ \E i \in CallIds : GetBalanceAfterRejects(i)

SpecAgents == Init /\ [][NextAgents]_vars

\* -------------------------------------- specification of the payment relay

\* The relay's wallet with payments of one lamport and of MaxLamports queued
\* for it, act called while earlier transfers are still in flight or after
\* they ended.
NextRelay ==
  \/ \E lamports \in {1, MaxLamports} : queuePayment("T1", lamports, NextMemo)
  \/ \E i \in CallIds, to \in Targets, lamports \in TransferAmounts :
        PaymentRelayAct(i, to, lamports)
  \/ \E i \in CallIds : GetBalanceResolves(i)
  \/ \E i \in CallIds : GetBalanceRejects(i)
  \/ \E i \in CallIds : Validate(i)
  \/ \E i \in CallIds : GetLatestBlockhashResolves(i)
  \/ \E i \in CallIds : GetLatestBlockhashRejects(i)
  \/ \E i \in CallIds : SendAndConfirmResolves(i)
  \/ \E i \in CallIds : SendAndConfirmRejects(i)
  \/ \E i \in CallIds : GetBalanceAfterResolves(i)
  \/ \E i \in CallIds : GetBalanceAfterRejects(i)

SpecRelay == Init /\ [][NextRelay]_vars

\* ------------------------------------------ specification of the audit log

\* Records a wallet's history holds: a blocked, a failed and a successful
\* transfer of one lamport.
AuditRecords ==
  { [signature |-> "BLOCKED", to |-> "T1", lamports |-> 1,
     status |-> "blocked", reason |-> ReasonPerTx],
    [signature |-> "FAILED", to |-> "T1", lamports |-> 1,
     status |-> "failed", reason |-> "err.message"],
    [signature |-> "SIGNATURE", to |-> "T1", lamports |-> 1,
     status |-> "success", reason |-> ReasonNone] }

\* A wallet on the day after its transfers: any history of these records, the
\* spending counter reset by the day's first validation.
InitAudit ==
  /\ ledgerLamports \in 0 .. MaxLamports
  /\ balanceLamports = ledgerLamports
  /\ dailySpentLamports = 0
  /\ now = DayLength
  /\ dailySpentResetAt = nextMidnight(now)
  /\ transactionHistory \in
       UNION { [1 .. n -> AuditRecords] : n \in 0 .. (MaxAuditLen - 1) }
  /\ isActive = TRUE
  /\ policy \in InitialPolicies
  /\ calls = [i \in CallIds |-> NoCall]
  /\ validation = NoValidation
  /\ lastControl = "none"
  /\ auditLog = NoAuditLog
  /\ lastUpdate = NoUpdate
  /\ summary = NoSummary
  /\ resetMark = 0
  /\ relay = NoRelay
  /\ NoManager

NextAudit ==
  \/ getAuditLog
  \/ \E record \in AuditRecords : AuditLogPush(record)
  \/ AuditLogPop
  \/ AuditLogReverse

SpecAudit == InitAudit /\ [][NextAudit]_vars

\* ------------------------------------- specification of the policy updates

\* The policy the updated wallet was created with: the shape of
\* DEFAULT_POLICY.
CreatedPolicy ==
  [maxTransactionLamports |-> 1, dailyLimitLamports |-> MaxLamports,
   hasAllowedTargets |-> FALSE, allowedTargets |-> {},
   requiresApproval |-> TRUE, approvalThresholdLamports |-> MaxLamports]

\* The values updatePolicy calls give to the fields they name: each differs
\* from the field's value in CreatedPolicy.
UpdateValues ==
  { [maxTransactionLamports |-> MaxLamports, dailyLimitLamports |-> 1,
     hasAllowedTargets |-> TRUE, allowedTargets |-> {"T2"},
     requiresApproval |-> FALSE, approvalThresholdLamports |-> 1] }

\* A wallet created with CreatedPolicy, funded, its balance refreshed.
InitUpdate ==
  /\ ledgerLamports = MaxLamports
  /\ balanceLamports = ledgerLamports
  /\ dailySpentLamports = 0
  /\ now = DayLength - 1
  /\ dailySpentResetAt = nextMidnight(now)
  /\ transactionHistory = << >>
  /\ isActive = TRUE
  /\ policy = CreatedPolicy
  /\ calls = [i \in CallIds |-> NoCall]
  /\ validation = NoValidation
  /\ lastControl = "none"
  /\ auditLog = NoAuditLog
  /\ lastUpdate = NoUpdate
  /\ summary = NoSummary
  /\ resetMark = 0
  /\ relay = NoRelay
  /\ NoManager

NextUpdate ==
  \/ \E named \in SUBSET PolicyFields, values \in UpdateValues :
        updatePolicy(named, values)
  \/ \E lamports \in 1 .. MaxLamports, target \in Targets :
        ValidateTransfer(lamports, target)

SpecUpdate == InitUpdate /\ [][NextUpdate]_vars

\* ----------------------------- specification of the serialized transfers

Mut_OverlappingTransferSOL(i, to, lamports) ==
  TransferSOL(i, to, lamports, FALSE)

\* transferSOL(destinationPubkey, lamports) called when no other invocation
\* is in flight: the caller awaits each call before it issues the next.
SerialTransferSOL(i, to, lamports) ==
  /\ \A j \in CallIds \ {i} : calls[j].pc \in {"idle", "done"}
  /\ TransferSOL(i, to, lamports, FALSE)

\* updatePolicy called with a dailyLimitLamports not below the one in force,
\* when it names that field.
updatePolicyNotLowering(named, values) ==
  /\ "dailyLimitLamports" \in named
       => values.dailyLimitLamports >= policy.dailyLimitLamports
  /\ updatePolicy(named, values)

\* The policy the serially used wallet is created with: approval off, a
\* daily limit of one lamport.
SerialPolicy ==
  [maxTransactionLamports |-> MaxLamports, dailyLimitLamports |-> 1,
   hasAllowedTargets |-> FALSE, allowedTargets |-> {},
   requiresApproval |-> FALSE, approvalThresholdLamports |-> MaxLamports]

\* The values its updatePolicy calls carry.
SerialUpdateValues ==
  { [SerialPolicy EXCEPT !.maxTransactionLamports = 1,
                         !.dailyLimitLamports = d] : d \in 0 .. MaxLamports }

InitSerial ==
  /\ ledgerLamports = MaxLamports
  /\ balanceLamports = 0
  /\ dailySpentLamports = 0
  /\ now = DayLength - 1
  /\ dailySpentResetAt = nextMidnight(now)
  /\ transactionHistory = << >>
  /\ isActive = TRUE
  /\ policy = SerialPolicy
  /\ calls = [i \in CallIds |-> NoCall]
  /\ validation = NoValidation
  /\ lastControl = "none"
  /\ auditLog = NoAuditLog
  /\ lastUpdate = NoUpdate
  /\ summary = NoSummary
  /\ resetMark = 0
  /\ relay = NoRelay
  /\ NoManager

\* One caller after the other transfers, each invocation run to its end
\* before the next starts, while the policy is updated, the clock advances
\* and validateTransfer is called in between.
NextSerial ==
  \/ \E i \in CallIds, lamports \in TransferAmounts :
        SerialTransferSOL(i, "T1", lamports)
  \/ \E i \in CallIds : GetBalanceResolves(i)
  \/ \E i \in CallIds : GetBalanceRejects(i)
  \/ \E i \in CallIds : Validate(i)
  \/ \E i \in CallIds : GetLatestBlockhashResolves(i)
  \/ \E i \in CallIds : GetLatestBlockhashRejects(i)
  \/ \E i \in CallIds : SendAndConfirmResolves(i)
  \/ \E i \in CallIds : SendAndConfirmRejects(i)
  \/ \E i \in CallIds : GetBalanceAfterResolves(i)
  \/ \E i \in CallIds : GetBalanceAfterRejects(i)
  \/ \E named \in {{"dailyLimitLamports"}, {"maxTransactionLamports"}},
        values \in SerialUpdateValues : updatePolicyNotLowering(named, values)
  \/ ValidateTransfer(1, "T1")
  \/ Tick

SpecSerial == InitSerial /\ [][NextSerial]_vars

\* The caller of transferSOL when a single invocation is followed.
WalletCallers == {1}

\* ------------------------------- specification of the approval decision

\* A wallet in use, under any policy: some of the day's limit spent, the
\* stored balance that of an earlier refresh.
InitApproval ==
  /\ ledgerLamports \in 0 .. MaxLamports
  /\ balanceLamports = 0
  /\ dailySpentLamports \in 0 .. MaxLamports
  /\ now = DayLength - 1
  /\ dailySpentResetAt = nextMidnight(now)
  /\ transactionHistory = << >>
  /\ isActive = TRUE
  /\ policy \in { p \in SpendingPolicies : WellFormedPolicy(p) }
  /\ calls = [i \in CallIds |-> NoCall]
  /\ validation = NoValidation
  /\ lastControl = "none"
  /\ auditLog = NoAuditLog
  /\ lastUpdate = NoUpdate
  /\ summary = NoSummary
  /\ resetMark = 0
  /\ relay = NoRelay
  /\ NoManager

\* One transferSOL invocation, with or without skipPolicyCheck, run to
\* its end.
NextApproval ==
  \/ \E i \in WalletCallers, to \in Targets, lamports \in TransferAmounts,
        skip \in BOOLEAN : TransferSOL(i, to, lamports, skip)
  \/ \E i \in WalletCallers : GetBalanceResolves(i)
  \/ \E i \in WalletCallers : GetBalanceRejects(i)
  \/ \E i \in WalletCallers : Validate(i)
  \/ \E i \in WalletCallers : GetLatestBlockhashResolves(i)
  \/ \E i \in WalletCallers : GetLatestBlockhashRejects(i)
  \/ \E i \in WalletCallers : SendAndConfirmResolves(i)
  \/ \E i \in WalletCallers : SendAndConfirmRejects(i)
  \/ \E i \in WalletCallers : GetBalanceAfterResolves(i)
  \/ \E i \in WalletCallers : GetBalanceAfterRejects(i)

SpecApproval == InitApproval /\ [][NextApproval]_vars

\* ------------------------------ specification of the wallet's whole interface

\* One wallet under all its operations: a transfer of one lamport to T1,
\* validation, refresh, policy update, audit log, summary,
\* deactivation and reactivation, and funding by the manager's airdrop.
NextWallet ==
  \/ \E i \in WalletCallers : TransferSOL(i, "T1", 1, FALSE)
  \/ \E i \in WalletCallers : GetBalanceResolves(i)
  \/ \E i \in WalletCallers : GetBalanceRejects(i)
  \/ \E i \in WalletCallers : Validate(i)
  \/ \E i \in WalletCallers : GetLatestBlockhashResolves(i)
  \/ \E i \in WalletCallers : GetLatestBlockhashRejects(i)
  \/ \E i \in WalletCallers : SendAndConfirmResolves(i)
  \/ \E i \in WalletCallers : SendAndConfirmRejects(i)
  \/ \E i \in WalletCallers : GetBalanceAfterResolves(i)
  \/ \E i \in WalletCallers : GetBalanceAfterRejects(i)
  \/ ValidateTransfer(1, "T1")
  \/ refreshBalance
  \/ \E values \in UpdateValues : updatePolicy({"allowedTargets"}, values)
  \/ getAuditLog
  \/ getSummary
  \/ deactivate
  \/ reactivate
  \/ AirdropConfirmed(1)

SpecWallet == InitUpdate /\ [][NextWallet]_vars

\* ------------------------------------------------------------ the manager

\* The state of the one wallet that is used on its own.
singleVars == << balanceLamports, dailySpentLamports, dailySpentResetAt,
                 transactionHistory, isActive, policy, ledgerLamports, now,
                 calls, validation, lastControl, auditLog, lastUpdate,
                 summary, resetMark, relay >>

\* this.wallets.has(agentId)
Has(agentId) == \E k \in 1 .. Len(wallets) : wallets[k].agentId = agentId

\* The position of agentId's entry in the Map.
IndexOf(agentId) ==
  CHOOSE k \in 1 .. Len(wallets) : wallets[k].agentId = agentId

\* The policy object createAgentWallet's default parameter hands to every
\* wallet: the one DEFAULT_POLICY object.
DefaultPolicyObject == 0

\* new AgentWallet(connection, metadata) with the default policy; keypair
\* stands for the key Keypair.generate() returns, a new one at every call.
\* policyObject names the object metadata.policy refers to, policy is that
\* object's content.
NewWallet(agentId, keypair) ==
  [agentId |-> agentId, keypair |-> keypair, balanceLamports |-> 0,
   dailySpentLamports |-> 0, dailySpentResetAt |-> nextMidnight(now),
   transactionHistory |-> << >>, isActive |-> TRUE, policy |-> CreatedPolicy,
   policyObject |-> DefaultPolicyObject]

\* A manager call and how it ended: the error thrown (ErrNone: none) and the
\* keypair of the wallet it returned or acted on (0: none).
Call(op, agentId, error, returned) ==
  [op |-> op, agentId |-> agentId, error |-> error, returned |-> returned,
   configs |-> << >>]

Mut_CreateOverwrites(agentId) ==
  /\ wallets' =
       IF Has(agentId)
         THEN [wallets EXCEPT ![IndexOf(agentId)] =
                 NewWallet(agentId, Len(wallets) + 1)]
         ELSE Append(wallets, NewWallet(agentId, Len(wallets) + 1))
  /\ lastCall' = Call("createAgentWallet", agentId, ErrNone, Len(wallets) + 1)
  /\ UNCHANGED << singleVars, fleetLedger, fleetCalls, airdrop, fleetSummary >>

\* createAgentWallet(agentId, agentName, role)
createAgentWallet(agentId) ==
  /\ IF Has(agentId)
       THEN /\ wallets' = wallets
            /\ lastCall' = Call("createAgentWallet", agentId, ErrExists, 0)
       ELSE /\ wallets' = Append(wallets, NewWallet(agentId, Len(wallets) + 1))
            /\ lastCall' = Call("createAgentWallet", agentId, ErrNone,
                                Len(wallets) + 1)
  /\ UNCHANGED << singleVars, fleetLedger, fleetCalls, airdrop, fleetSummary >>

\* agentConfigs.map(cfg => createAgentWallet(cfg.agentId, ...)) from registry
\* ws on: the registry it leaves, and the error and the agentId of the call
\* that threw, if one did.
RECURSIVE CreateEach(_, _, _)
CreateEach(ws, agentIds, last) ==
  IF agentIds = << >>
    THEN [wallets |-> ws, error |-> ErrNone, agentId |-> last]
  ELSE IF \E k \in 1 .. Len(ws) : ws[k].agentId = Head(agentIds)
    THEN [wallets |-> ws, error |-> ErrExists, agentId |-> Head(agentIds)]
  ELSE CreateEach(Append(ws, NewWallet(Head(agentIds), Len(ws) + 1)),
                  Tail(agentIds), Head(agentIds))

\* The agentConfigs lists callers pass to createAgentFleet.
FleetConfigs == { << a, b >> : a \in AgentIds, b \in AgentIds }

Mut_CreateFleetAllOrNothing(agentIds) ==
  LET r == CreateEach(wallets, agentIds, NoLastCall.agentId)
  IN /\ wallets' = IF r.error = ErrNone THEN r.wallets ELSE wallets
     /\ lastCall' = [Call("createAgentFleet", r.agentId, r.error, 0)
                       EXCEPT !.configs = agentIds]
     /\ UNCHANGED << singleVars, fleetLedger, fleetCalls, airdrop,
                     fleetSummary >>

\* createAgentFleet(agentConfigs)
createAgentFleet(agentIds) ==
  LET r == CreateEach(wallets, agentIds, NoLastCall.agentId)
  IN /\ wallets' = r.wallets
     /\ lastCall' = [Call("createAgentFleet", r.agentId, r.error, 0)
                       EXCEPT !.configs = agentIds]
     /\ UNCHANGED << singleVars, fleetLedger, fleetCalls, airdrop,
                     fleetSummary >>

\* getWallet(agentId)
getWallet(agentId) ==
  /\ lastCall' =
       IF Has(agentId)
         THEN Call("getWallet", agentId, ErrNone,
                   wallets[IndexOf(agentId)].keypair)
         ELSE Call("getWallet", agentId, ErrNoWallet, 0)
  /\ UNCHANGED << singleVars, wallets, fleetLedger, fleetCalls, airdrop,
                  fleetSummary >>

Mut_PauseAbsentIsSilent(agentId) ==
  /\ IF Has(agentId)
       THEN /\ wallets' = [wallets EXCEPT ![IndexOf(agentId)].isActive = FALSE]
            /\ lastCall' = Call("pauseAgent", agentId, ErrNone,
                                wallets[IndexOf(agentId)].keypair)
       ELSE /\ wallets' = wallets
            /\ lastCall' = Call("pauseAgent", agentId, ErrNone, 0)
  /\ UNCHANGED << singleVars, fleetLedger, fleetCalls, airdrop, fleetSummary >>

\* pauseAgent(agentId): getWallet(agentId).deactivate()
pauseAgent(agentId) ==
  /\ IF Has(agentId)
       THEN /\ wallets' = [wallets EXCEPT ![IndexOf(agentId)].isActive = FALSE]
            /\ lastCall' = Call("pauseAgent", agentId, ErrNone,
                                wallets[IndexOf(agentId)].keypair)
       ELSE /\ wallets' = wallets
            /\ lastCall' = Call("pauseAgent", agentId, ErrNoWallet, 0)
  /\ UNCHANGED << singleVars, fleetLedger, fleetCalls, airdrop, fleetSummary >>

\* resumeAgent(agentId): getWallet(agentId).reactivate()
resumeAgent(agentId) ==
  /\ IF Has(agentId)
       THEN /\ wallets' = [wallets EXCEPT ![IndexOf(agentId)].isActive = TRUE]
            /\ lastCall' = Call("resumeAgent", agentId, ErrNone,
                                wallets[IndexOf(agentId)].keypair)
       ELSE /\ wallets' = wallets
            /\ lastCall' = Call("resumeAgent", agentId, ErrNoWallet, 0)
  /\ UNCHANGED << singleVars, fleetLedger, fleetCalls, airdrop, fleetSummary >>

Mut_PauseAllOneAtATime ==
  /\ wallets' =
       IF \E k \in 1 .. Len(wallets) : wallets[k].isActive
         THEN [wallets EXCEPT
                 ![CHOOSE k \in 1 .. Len(wallets) :
                     /\ wallets[k].isActive
                     /\ \A j \in 1 .. (k - 1) : ~wallets[j].isActive].isActive
                   = FALSE]
         ELSE wallets
  /\ lastCall' = Call("pauseAllAgents", NoLastCall.agentId, ErrNone, 0)
  /\ UNCHANGED << singleVars, fleetLedger, fleetCalls, airdrop, fleetSummary >>

\* pauseAllAgents(): this.wallets.forEach(w => w.deactivate()), one
\* synchronous loop.
pauseAllAgents ==
  /\ wallets' = [k \in 1 .. Len(wallets) |->
                   [wallets[k] EXCEPT !.isActive = FALSE]]
  /\ lastCall' = Call("pauseAllAgents", NoLastCall.agentId, ErrNone, 0)
  /\ UNCHANGED << singleVars, fleetLedger, fleetCalls, airdrop, fleetSummary >>

\* resumeAllAgents(): this.wallets.forEach(w => w.reactivate())
resumeAllAgents ==
  /\ wallets' = [k \in 1 .. Len(wallets) |->
                   [wallets[k] EXCEPT !.isActive = TRUE]]
  /\ lastCall' = Call("resumeAllAgents", NoLastCall.agentId, ErrNone, 0)
  /\ UNCHANGED << singleVars, fleetLedger, fleetCalls, airdrop, fleetSummary >>

\* ----------------------------------------------------------------- funding

\* The faucet's limit per request, in SOL.  The amounts of the manager's
\* wallets are counted in units of one SOL (LAMPORTS_PER_SOL lamports).
AirdropCapSol == 2

\* Math.min(solAmount * LAMPORTS_PER_SOL, 2 * LAMPORTS_PER_SOL)
AirdropLamports(solAmount) ==
  IF solAmount < AirdropCapSol THEN solAmount ELSE AirdropCapSol

\* The solAmount arguments callers pass: one SOL (the default) and more than
\* the faucet's limit.
SolAmounts == {1, AirdropCapSol + 1}

\* airdropToAgent(agentId, solAmount) is called inside airdropToAllAgents for
\* the entry at position index: getWallet and the call of requestAirdrop.
AttemptAt(r, index) ==
  [r EXCEPT !.pc = "requestAirdrop", !.index = index,
            !.agentId = wallets[index].agentId,
            !.attempts = Append(@, wallets[index].agentId)]

\* The for-of loop asks the Map's iterator for the next entry: entries added
\* while the loop was running are visited too.
NextEntry(r) ==
  IF r.index < Len(wallets) THEN AttemptAt(r, r.index + 1)
  ELSE [r EXCEPT !.pc = "done"]

\* The end of one iteration of the loop: the delay when delayMs > 0.
AfterAttempt(r) == IF r.delay THEN [r EXCEPT !.pc = "delay"] ELSE NextEntry(r)

Mut_AirdropFailureAborts ==
  [airdrop EXCEPT !.pc = "done", !.raised = TRUE,
                  !.failures = Append(@, airdrop.agentId)]

\* What a rejected await of airdropToAgent leads to: called on its own,
\* airdropToAgent rejects; inside airdropToAllAgents the catch block logs a
\* warning and the loop goes on.
AirdropRejected ==
  IF airdrop.all
    THEN AfterAttempt([airdrop EXCEPT !.failures = Append(@, airdrop.agentId)])
    ELSE [airdrop EXCEPT !.pc = "done", !.raised = TRUE,
                         !.failures = Append(@, airdrop.agentId)]

\* airdropToAgent(agentId, solAmount) called on its own: getWallet throws for
\* an absent agentId and the call rejects; otherwise requestAirdrop is called.
airdropToAgent(agentId, solAmount) ==
  /\ airdrop.pc \in {"idle", "done"}
  /\ IF Has(agentId)
       THEN /\ airdrop' = AttemptAt([NoAirdrop EXCEPT
                            !.lamports = AirdropLamports(solAmount)],
                            IndexOf(agentId))
            /\ lastCall' = Call("airdropToAgent", agentId, ErrNone,
                                wallets[IndexOf(agentId)].keypair)
       ELSE /\ airdrop' = airdrop
            /\ lastCall' = Call("airdropToAgent", agentId, ErrNoWallet, 0)
  /\ UNCHANGED << singleVars, wallets, fleetLedger, fleetCalls, fleetSummary >>

\* airdropToAllAgents(solPerAgent, delayMs); delay is delayMs > 0.  The loop
\* starts with the first entry of the Map, or ends at once when there is none.
airdropToAllAgents(solPerAgent, delay) ==
  /\ airdrop.pc \in {"idle", "done"}
  /\ airdrop' = NextEntry([NoAirdrop EXCEPT !.all = TRUE, !.delay = delay,
                             !.lamports = AirdropLamports(solPerAgent)])
  /\ lastCall' = Call("airdropToAllAgents", NoLastCall.agentId, ErrNone, 0)
  /\ UNCHANGED << singleVars, wallets, fleetLedger, fleetCalls, fleetSummary >>

\* requestAirdrop resolves with a signature: the faucet grants the request
\* while the account stays within MaxLamports.
RequestAirdropResolves ==
  /\ airdrop.pc = "requestAirdrop"
  /\ fleetLedger[airdrop.agentId] + airdrop.lamports <= MaxLamports
  /\ airdrop' = [airdrop EXCEPT !.pc = "getLatestBlockhash"]
  /\ UNCHANGED << singleVars, wallets, fleetLedger, fleetCalls, lastCall,
                  fleetSummary >>

\* requestAirdrop rejects (rate limit, network).
RequestAirdropRejects ==
  /\ airdrop.pc = "requestAirdrop"
  /\ airdrop' = AirdropRejected
  /\ UNCHANGED << singleVars, wallets, fleetLedger, fleetCalls, lastCall,
                  fleetSummary >>

AirdropBlockhashResolves ==
  /\ airdrop.pc = "getLatestBlockhash"
  /\ airdrop' = [airdrop EXCEPT !.pc = "confirmTransaction"]
  /\ UNCHANGED << singleVars, wallets, fleetLedger, fleetCalls, lastCall,
                  fleetSummary >>

AirdropBlockhashRejects ==
  /\ airdrop.pc = "getLatestBlockhash"
  /\ airdrop' = AirdropRejected
  /\ UNCHANGED << singleVars, wallets, fleetLedger, fleetCalls, lastCall,
                  fleetSummary >>

\* confirmTransaction resolves: the airdrop is on the ledger;
\* wallet.refreshBalance() is called.
ConfirmTransactionResolves ==
  /\ airdrop.pc = "confirmTransaction"
  /\ fleetLedger' = [fleetLedger EXCEPT ![airdrop.agentId] =
                       @ + airdrop.lamports]
  /\ airdrop' = [airdrop EXCEPT !.pc = "getBalance"]
  /\ UNCHANGED << singleVars, wallets, fleetCalls, lastCall, fleetSummary >>

ConfirmTransactionRejects ==
  /\ airdrop.pc = "confirmTransaction"
  /\ airdrop' = AirdropRejected
  /\ UNCHANGED << singleVars, wallets, fleetLedger, fleetCalls, lastCall,
                  fleetSummary >>

\* wallet.refreshBalance() resolves: airdropToAgent returns the signature;
\* inside airdropToAllAgents the iteration ends.
AirdropRefreshResolves ==
  /\ airdrop.pc = "getBalance"
  /\ wallets' = [wallets EXCEPT ![airdrop.index].balanceLamports =
                   fleetLedger[airdrop.agentId]]
  /\ airdrop' = IF airdrop.all THEN AfterAttempt(airdrop)
                ELSE [airdrop EXCEPT !.pc = "done"]
  /\ UNCHANGED << singleVars, fleetLedger, fleetCalls, lastCall, fleetSummary >>

AirdropRefreshRejects ==
  /\ airdrop.pc = "getBalance"
  /\ airdrop' = AirdropRejected
  /\ UNCHANGED << singleVars, wallets, fleetLedger, fleetCalls, lastCall,
                  fleetSummary >>

\* The timer of the delay between two requests fires.
DelayElapses ==
  /\ airdrop.pc = "delay"
  /\ airdrop' = NextEntry(airdrop)
  /\ UNCHANGED << singleVars, wallets, fleetLedger, fleetCalls, lastCall,
                  fleetSummary >>

\* An await of the running airdrop call settles, one way or the other.
AirdropSettles ==
  \/ RequestAirdropResolves
  \/ RequestAirdropRejects
  \/ AirdropBlockhashResolves
  \/ AirdropBlockhashRejects
  \/ ConfirmTransactionResolves
  \/ ConfirmTransactionRejects
  \/ AirdropRefreshResolves
  \/ AirdropRefreshRejects
  \/ DelayElapses

\* ------------------------------------------------------------ fleet summary

\* all.flatMap(w => w.state.transactionHistory)
RECURSIVE FlatMapHistory(_)
FlatMapHistory(ws) ==
  IF ws = << >> THEN << >>
  ELSE Head(ws).transactionHistory \o FlatMapHistory(Tail(ws))

\* all.reduce((sum, w) => sum + w.state.balanceLamports, 0)
RECURSIVE TotalBalance(_)
TotalBalance(ws) ==
  IF ws = << >> THEN 0
  ELSE Head(ws).balanceLamports + TotalBalance(Tail(ws))

IsSuccess(t) == t.status = "success"

Mut_SuccessRateUnguarded(successTx, allTx) == Ratio(Len(successTx), Len(allTx))

\* allTx.length > 0 ? successTx.length / allTx.length : 0
SuccessRate(successTx, allTx) ==
  IF Len(allTx) > 0 THEN Ratio(Len(successTx), Len(allTx)) ELSE Ratio(0, 1)

\* getFleetSummary(); totalBalanceSOL is totalBalanceLamports divided by
\* LAMPORTS_PER_SOL.
getFleetSummary ==
  LET all == wallets
      active == SelectSeq(all, LAMBDA w : w.isActive)
      allTx == FlatMapHistory(all)
      successTx == SelectSeq(allTx, IsSuccess)
  IN /\ fleetSummary' =
          [returned |-> TRUE, totalAgents |-> Len(all),
           activeAgents |-> Len(active),
           totalBalanceLamports |-> TotalBalance(all),
           totalTransactions |-> Len(allTx),
           successRate |-> SuccessRate(successTx, allTx)]
     /\ UNCHANGED << singleVars, wallets, fleetLedger, fleetCalls, airdrop,
                     lastCall >>

\* refreshAllBalances() with every getBalance resolving.
refreshAllBalances ==
  /\ wallets' = [k \in 1 .. Len(wallets) |->
                   [wallets[k] EXCEPT !.balanceLamports =
                      fleetLedger[wallets[k].agentId]]]
  /\ UNCHANGED << singleVars, fleetLedger, fleetCalls, airdrop, lastCall,
                  fleetSummary >>

\* -------------------------------------------- transfers of the fleet's wallets

\* A record of a fleet wallet's history.
FleetRecord(signature, status, reason) ==
  [signature |-> signature, status |-> status, reason |-> reason]

\* The wallet of agentId with record appended to its history.
Recorded(agentId, record) ==
  [wallets EXCEPT ![IndexOf(agentId)].transactionHistory = Append(@, record)]

\* The wallet of agentId calls transferSOL(T1, 1): one invocation per wallet.
FleetTransferSOL(agentId) ==
  /\ Has(agentId)
  /\ fleetCalls[agentId] = "idle"
  /\ fleetCalls' = [fleetCalls EXCEPT ![agentId] = "getBalance"]
  /\ UNCHANGED << singleVars, wallets, fleetLedger, airdrop, lastCall,
                  fleetSummary >>

FleetGetBalanceResolves(agentId) ==
  /\ fleetCalls[agentId] = "getBalance"
  /\ wallets' = [wallets EXCEPT ![IndexOf(agentId)].balanceLamports =
                   fleetLedger[agentId]]
  /\ fleetCalls' = [fleetCalls EXCEPT ![agentId] = "refreshed"]
  /\ UNCHANGED << singleVars, fleetLedger, airdrop, lastCall, fleetSummary >>

FleetGetBalanceRejects(agentId) ==
  /\ fleetCalls[agentId] = "getBalance"
  /\ fleetCalls' = [fleetCalls EXCEPT ![agentId] = "done"]
  /\ UNCHANGED << singleVars, wallets, fleetLedger, airdrop, lastCall,
                  fleetSummary >>

\* Validation, then the blocked record, the pending-approval record, or the
\* try block up to getLatestBlockhash.
FleetValidate(agentId) ==
  LET w == wallets[IndexOf(agentId)]
      spent == SpentAfterReset(now, w.dailySpentResetAt, w.dailySpentLamports)
      v == validateTransfer(w.isActive, w.balanceLamports, spent, w.policy,
                            1, "T1")
      reset == [w EXCEPT !.dailySpentLamports = spent,
                         !.dailySpentResetAt =
                           ResetAtAfterReset(now, w.dailySpentResetAt)]
  IN /\ fleetCalls[agentId] = "refreshed"
     /\ IF ~v.allowed
          THEN /\ wallets' = [wallets EXCEPT ![IndexOf(agentId)] =
                    [reset EXCEPT !.transactionHistory =
                       Append(@, FleetRecord("BLOCKED", "blocked", v.reason))]]
               /\ fleetCalls' = [fleetCalls EXCEPT ![agentId] = "done"]
        ELSE IF v.requiresApproval
          THEN /\ wallets' = [wallets EXCEPT ![IndexOf(agentId)] =
                    [reset EXCEPT !.transactionHistory =
                       Append(@, FleetRecord("PENDING_APPROVAL", "blocked",
                                             ReasonApproval))]]
               /\ fleetCalls' = [fleetCalls EXCEPT ![agentId] = "done"]
          ELSE /\ wallets' = [wallets EXCEPT ![IndexOf(agentId)] = reset]
               /\ fleetCalls' = [fleetCalls EXCEPT ![agentId] =
                    "getLatestBlockhash"]
     /\ UNCHANGED << singleVars, fleetLedger, airdrop, lastCall, fleetSummary >>

\* The catch block of the wallet's transferSOL.
FleetCatch(agentId) ==
  /\ wallets' = Recorded(agentId, FleetRecord("FAILED", "failed", "err.message"))
  /\ fleetCalls' = [fleetCalls EXCEPT ![agentId] = "done"]
  /\ UNCHANGED << singleVars, fleetLedger, airdrop, lastCall, fleetSummary >>

FleetGetLatestBlockhashResolves(agentId) ==
  /\ fleetCalls[agentId] = "getLatestBlockhash"
  /\ fleetCalls' = [fleetCalls EXCEPT ![agentId] = "sendAndConfirm"]
  /\ UNCHANGED << singleVars, wallets, fleetLedger, airdrop, lastCall,
                  fleetSummary >>

FleetGetLatestBlockhashRejects(agentId) ==
  /\ fleetCalls[agentId] = "getLatestBlockhash"
  /\ FleetCatch(agentId)

FleetSendAndConfirmResolves(agentId) ==
  /\ fleetCalls[agentId] = "sendAndConfirm"
  /\ fleetLedger[agentId] >= 1
  /\ fleetLedger' = [fleetLedger EXCEPT ![agentId] = @ - 1]
  /\ wallets' = [wallets EXCEPT
       ![IndexOf(agentId)].dailySpentLamports = @ + 1,
       ![IndexOf(agentId)].transactionHistory =
         Append(@, FleetRecord("SIGNATURE", "success", ReasonNone))]
  /\ fleetCalls' = [fleetCalls EXCEPT ![agentId] = "getBalanceAfter"]
  /\ UNCHANGED << singleVars, airdrop, lastCall, fleetSummary >>

FleetSendAndConfirmRejects(agentId) ==
  /\ fleetCalls[agentId] = "sendAndConfirm"
  /\ FleetCatch(agentId)

FleetGetBalanceAfterResolves(agentId) ==
  /\ fleetCalls[agentId] = "getBalanceAfter"
  /\ wallets' = [wallets EXCEPT ![IndexOf(agentId)].balanceLamports =
                   fleetLedger[agentId]]
  /\ fleetCalls' = [fleetCalls EXCEPT ![agentId] = "done"]
  /\ UNCHANGED << singleVars, fleetLedger, airdrop, lastCall, fleetSummary >>

FleetGetBalanceAfterRejects(agentId) ==
  /\ fleetCalls[agentId] = "getBalanceAfter"
  /\ FleetCatch(agentId)

\* sendAndConfirmTransaction resolves for a transfer whose destination is the
\* account of peer's wallet: the ledger credits that account.
FleetSendAndConfirmResolvesToPeer(agentId, peer) ==
  /\ peer # agentId
  /\ fleetCalls[agentId] = "sendAndConfirm"
  /\ fleetLedger[agentId] >= 1
  /\ fleetLedger' = [fleetLedger EXCEPT ![agentId] = @ - 1, ![peer] = @ + 1]
  /\ wallets' = [wallets EXCEPT
       ![IndexOf(agentId)].dailySpentLamports = @ + 1,
       ![IndexOf(agentId)].transactionHistory =
         Append(@, FleetRecord("SIGNATURE", "success", ReasonNone))]
  /\ fleetCalls' = [fleetCalls EXCEPT ![agentId] = "getBalanceAfter"]
  /\ UNCHANGED << singleVars, airdrop, lastCall, fleetSummary >>

\* getWallet(agentId).validateTransfer(1, "T1"): the wallet's lazy reset.
FleetValidateTransfer(agentId) ==
  LET w == wallets[IndexOf(agentId)]
  IN /\ Has(agentId)
     /\ wallets' = [wallets EXCEPT ![IndexOf(agentId)] =
          [w EXCEPT !.dailySpentLamports =
                      SpentAfterReset(now, w.dailySpentResetAt,
                                      w.dailySpentLamports),
                    !.dailySpentResetAt =
                      ResetAtAfterReset(now, w.dailySpentResetAt)]]
     /\ lastCall' = Call("validateTransfer", agentId, ErrNone, w.keypair)
     /\ UNCHANGED << singleVars, fleetLedger, fleetCalls, airdrop,
                     fleetSummary >>

\* getWallet(agentId).refreshBalance()
FleetRefreshBalance(agentId) ==
  /\ Has(agentId)
  /\ wallets' = [wallets EXCEPT ![IndexOf(agentId)].balanceLamports =
                   fleetLedger[agentId]]
  /\ lastCall' = Call("refreshBalance", agentId, ErrNone,
                      wallets[IndexOf(agentId)].keypair)
  /\ UNCHANGED << singleVars, fleetLedger, fleetCalls, airdrop, fleetSummary >>

Mut_UpdatePolicyInPlace(agentId, named, values) ==
  LET w == wallets[IndexOf(agentId)]
  IN /\ Has(agentId)
     /\ wallets' = [k \in 1 .. Len(wallets) |->
          IF wallets[k].policyObject = w.policyObject
            THEN [wallets[k] EXCEPT !.policy = MergePolicy(@, named, values)]
            ELSE wallets[k]]
     /\ lastCall' = Call("updatePolicy", agentId, ErrNone, w.keypair)
     /\ UNCHANGED << singleVars, fleetLedger, fleetCalls, airdrop,
                     fleetSummary >>

\* getWallet(agentId).updatePolicy(newPolicy): metadata.policy is set to a new
\* object, the merge of the old one and newPolicy; the old object is left as
\* it is.
FleetUpdatePolicy(agentId, named, values) ==
  LET w == wallets[IndexOf(agentId)]
  IN /\ Has(agentId)
     /\ wallets' = [wallets EXCEPT ![IndexOf(agentId)] =
          [w EXCEPT !.policy = MergePolicy(@, named, values),
                    !.policyObject = w.keypair]]
     /\ lastCall' = Call("updatePolicy", agentId, ErrNone, w.keypair)
     /\ UNCHANGED << singleVars, fleetLedger, fleetCalls, airdrop,
                     fleetSummary >>

\* A step of the transferSOL invocation of agentId's wallet.
FleetTransferStep(agentId) ==
  \/ FleetGetBalanceResolves(agentId)
  \/ FleetGetBalanceRejects(agentId)
  \/ FleetValidate(agentId)
  \/ FleetGetLatestBlockhashResolves(agentId)
  \/ FleetGetLatestBlockhashRejects(agentId)
  \/ FleetSendAndConfirmResolves(agentId)
  \/ FleetSendAndConfirmRejects(agentId)
  \/ FleetGetBalanceAfterResolves(agentId)
  \/ FleetGetBalanceAfterRejects(agentId)

\* ----------------------------------------- specification of the registry

\* The single wallet is not in use while the manager is.
SingleWalletUnused ==
  /\ balanceLamports = 0
  /\ dailySpentLamports = 0
  /\ now = DayLength - 1
  /\ dailySpentResetAt = nextMidnight(now)
  /\ transactionHistory = << >>
  /\ isActive = TRUE
  /\ policy = CreatedPolicy
  /\ ledgerLamports = 0
  /\ calls = [i \in CallIds |-> NoCall]
  /\ validation = NoValidation
  /\ lastControl = "none"
  /\ auditLog = NoAuditLog
  /\ lastUpdate = NoUpdate
  /\ summary = NoSummary
  /\ resetMark = 0
  /\ relay = NoRelay

\* A new WalletManager.
InitRegistry == SingleWalletUnused /\ NoManager

\* The registry under its creation, lookup, pause, resume and single-agent
\* funding operations.
NextRegistry ==
  \/ \E agentId \in AgentIds : createAgentWallet(agentId)
  \/ \E agentIds \in FleetConfigs : createAgentFleet(agentIds)
  \/ \E agentId \in AgentIds : getWallet(agentId)
  \/ \E agentId \in AgentIds : pauseAgent(agentId)
  \/ \E agentId \in AgentIds : resumeAgent(agentId)
  \/ pauseAllAgents
  \/ resumeAllAgents
  \/ \E agentId \in AgentIds, solAmount \in SolAmounts :
        airdropToAgent(agentId, solAmount)
  \/ RequestAirdropResolves
  \/ RequestAirdropRejects
  \/ AirdropBlockhashResolves
  \/ AirdropBlockhashRejects
  \/ ConfirmTransactionResolves
  \/ ConfirmTransactionRejects
  \/ AirdropRefreshResolves
  \/ AirdropRefreshRejects

SpecRegistry == InitRegistry /\ [][NextRegistry]_vars

\* ------------------------------------- specification of the fleet's funding

\* airdropToAllAgents on a registry that wallets are added to, also while the
\* loop is running.
NextFunding ==
  \/ \E agentId \in AgentIds : createAgentWallet(agentId)
  \/ \E solPerAgent \in SolAmounts, delay \in BOOLEAN :
        airdropToAllAgents(solPerAgent, delay)
  \/ RequestAirdropResolves
  \/ RequestAirdropRejects
  \/ AirdropBlockhashResolves
  \/ AirdropBlockhashRejects
  \/ ConfirmTransactionResolves
  \/ ConfirmTransactionRejects
  \/ AirdropRefreshResolves
  \/ AirdropRefreshRejects
  \/ DelayElapses

SpecFunding == InitRegistry /\ [][NextFunding]_vars

\* Every call to the ledger settles, resolved or rejected, and the delay's
\* timer fires.
SpecFundingFair == SpecFunding /\ WF_vars(AirdropSettles)

\* -------------------------------------------- specification of the fleet

\* A fleet of two created by createAgentFleet, each account holding one unit
\* on the ledger.
InitFleet ==
  /\ SingleWalletUnused
  /\ wallets = CreateEach(<< >>, << "a1", "a2" >>, "a1").wallets
  /\ fleetLedger = [a \in AgentIds |-> 1]
  /\ fleetCalls = [a \in AgentIds |-> "idle"]
  /\ airdrop = NoAirdrop
  /\ lastCall = [Call("createAgentFleet", "a2", ErrNone, 0)
                   EXCEPT !.configs = << "a1", "a2" >>]
  /\ fleetSummary = NoFleetSummary

\* The fleet's wallets transferring while the manager pauses, resumes and
\* summarises them.
NextFleet ==
  \/ \E agentId \in AgentIds : FleetTransferSOL(agentId)
  \/ \E agentId \in AgentIds : FleetGetBalanceResolves(agentId)
  \/ \E agentId \in AgentIds : FleetGetBalanceRejects(agentId)
  \/ \E agentId \in AgentIds : FleetValidate(agentId)
  \/ \E agentId \in AgentIds : FleetGetLatestBlockhashResolves(agentId)
  \/ \E agentId \in AgentIds : FleetGetLatestBlockhashRejects(agentId)
  \/ \E agentId \in AgentIds : FleetSendAndConfirmResolves(agentId)
  \/ \E agentId \in AgentIds : FleetSendAndConfirmRejects(agentId)
  \/ \E agentId \in AgentIds : FleetGetBalanceAfterResolves(agentId)
  \/ \E agentId \in AgentIds : FleetGetBalanceAfterRejects(agentId)
  \/ \E agentId \in AgentIds : pauseAgent(agentId)
  \/ \E agentId \in AgentIds : resumeAgent(agentId)
  \/ pauseAllAgents
  \/ resumeAllAgents
  \/ refreshAllBalances
  \/ getFleetSummary

SpecFleet == InitFleet /\ [][NextFleet]_vars

\* ------------------------------- specification of the wallets side by side

\* Two wallets created with the default policy, each under its own
\* operations: transfers to an outside account or to the other wallet,
\* validation, refresh, policy update, pause and resume, as the clock
\* advances.
NextIndependent ==
  \/ \E agentId \in AgentIds : FleetTransferSOL(agentId)
  \/ \E agentId \in AgentIds : FleetGetBalanceResolves(agentId)
  \/ \E agentId \in AgentIds : FleetGetBalanceRejects(agentId)
  \/ \E agentId \in AgentIds : FleetValidate(agentId)
  \/ \E agentId \in AgentIds : FleetGetLatestBlockhashResolves(agentId)
  \/ \E agentId \in AgentIds : FleetGetLatestBlockhashRejects(agentId)
  \/ \E agentId \in AgentIds : FleetSendAndConfirmResolves(agentId)
  \/ \E agentId \in AgentIds, peer \in AgentIds :
        FleetSendAndConfirmResolvesToPeer(agentId, peer)
  \/ \E agentId \in AgentIds : FleetSendAndConfirmRejects(agentId)
  \/ \E agentId \in AgentIds : FleetGetBalanceAfterResolves(agentId)
  \/ \E agentId \in AgentIds : FleetGetBalanceAfterRejects(agentId)
  \/ \E agentId \in AgentIds : FleetValidateTransfer(agentId)
  \/ \E agentId \in AgentIds : FleetRefreshBalance(agentId)
  \/ \E agentId \in AgentIds, values \in UpdateValues :
        FleetUpdatePolicy(agentId, {"dailyLimitLamports"}, values)
  \/ \E agentId \in AgentIds : pauseAgent(agentId)
  \/ \E agentId \in AgentIds : resumeAgent(agentId)
  \/ Tick

SpecIndependent == InitFleet /\ [][NextIndependent]_vars

\* The six blocking conditions as the last validateTransfer call met them, in
\* the order active, positive, balance, per-transaction, daily, whitelist.
ValidationFails ==
  IF ~validation.called THEN [k \in 1 .. 6 |-> FALSE]
  ELSE
  LET seen == validation.seen
      p == seen.policy
  IN << ~seen.active,
        validation.lamports <= 0,
        validation.lamports > seen.balance,
        validation.lamports > p.maxTransactionLamports,
        seen.spent + validation.lamports > p.dailyLimitLamports,
        p.hasAllowedTargets /\ validation.target \notin p.allowedTargets >>

\* The policy, the counter and the balance the last call read.
SeenPolicy == validation.seen.policy

SeenSpent == validation.seen.spent

SeenBalance == validation.seen.balance

ValidationReasons ==
  << ReasonDeactivated, ReasonNotPositive, ReasonBalance, ReasonPerTx,
     ReasonDaily, ReasonWhitelist >>

AllChecksPass == \A k \in 1 .. 6 : ~ValidationFails[k]

\* C4: validateTransfer checks active, amount > 0, amount <= balance,
\* amount <= maxTransaction, dailySpent + amount <= dailyLimit, whitelist in
\* this order, and reports the reason of the first check that fails.
C4_FirstFailingCheckReported ==
  validation.called =>
    \A k \in 1 .. 6 :
      (ValidationFails[k] /\ \A j \in 1 .. (k - 1) : ~ValidationFails[j])
        => validation.result = Blocked(ValidationReasons[k])

\* A call where the balance check and the per-transaction check both fail and
\* the balance reason is the one reported.
C4_Witness ==
  /\ validation.called
  /\ ~ValidationFails[1]
  /\ ValidationFails[3] /\ ValidationFails[4] /\ ValidationFails[5]
  /\ validation.result = Blocked(ReasonBalance)

\* C5: validateTransfer returns allowed (plain or with approval required) if
\* and only if all six conditions hold.
C5_AllowedIffAllChecksPass ==
  validation.called => (validation.result.allowed <=> AllChecksPass)

\* An allowed call under a configured whitelist with the balance, the cap and
\* the daily limit all met exactly.
C5_Witness ==
  /\ validation.called
  /\ validation.result.allowed
  /\ SeenPolicy.hasAllowedTargets
  /\ validation.lamports = SeenBalance
  /\ validation.lamports = SeenPolicy.maxTransactionLamports
  /\ SeenSpent + validation.lamports = SeenPolicy.dailyLimitLamports

\* C6 as stated: every amount above maxTransaction is Blocked with the
\* per-transaction reason, whatever the balance and dailySpent.
C6_Original ==
  (validation.called /\ ~ValidationFails[1]
     /\ validation.lamports > SeenPolicy.maxTransactionLamports)
    => validation.result = Blocked(ReasonPerTx)

\* C6 amended: every amount above maxTransaction is Blocked; the reason is the
\* per-transaction limit exactly when the wallet is active, the amount is
\* positive and the amount is within the balance, whatever dailySpent and the
\* whitelist are.
C6_Amended ==
  (validation.called /\ validation.lamports > SeenPolicy.maxTransactionLamports)
    => /\ ~validation.result.allowed
       /\ validation.result.reason = ReasonPerTx
            <=> (~ValidationFails[1] /\ validation.lamports > 0
                   /\ validation.lamports <= SeenBalance)

\* An amount above the cap that also breaks the daily limit and the whitelist
\* and is reported with the per-transaction reason.
C6_Witness ==
  /\ validation.called
  /\ validation.lamports > SeenPolicy.maxTransactionLamports
  /\ ValidationFails[5] /\ ValidationFails[6]
  /\ validation.result = Blocked(ReasonPerTx)

\* C7 as stated, read with the wallet active and the balance, the cap and the
\* whitelist met: with S = dailySpent <= L = dailyLimit, validating L - S + 1
\* is Blocked with the daily-limit reason and validating L - S is allowed.
C7_Original ==
  (validation.called /\ ~ValidationFails[1]
     /\ SeenSpent <= SeenPolicy.dailyLimitLamports
     /\ ~ValidationFails[3] /\ ~ValidationFails[4] /\ ~ValidationFails[6])
    => /\ (validation.lamports
             = SeenPolicy.dailyLimitLamports - SeenSpent + 1)
            => validation.result = Blocked(ReasonDaily)
       /\ (validation.lamports = SeenPolicy.dailyLimitLamports - SeenSpent)
            => validation.result.allowed

\* C7 amended: with the wallet active, S the counter after the lazy reset and
\* S <= L, an amount L - S + 1 that is within the balance and the cap is
\* Blocked with the daily-limit reason; the amount L - S is allowed when it is
\* positive, within the balance and the cap and the target is permitted, and
\* is Blocked as not positive when S = L.
C7_Amended ==
  (validation.called /\ ~ValidationFails[1]
     /\ SeenSpent <= SeenPolicy.dailyLimitLamports
     /\ ~ValidationFails[3] /\ ~ValidationFails[4])
    => /\ (validation.lamports
             = SeenPolicy.dailyLimitLamports - SeenSpent + 1)
            => validation.result = Blocked(ReasonDaily)
       /\ (validation.lamports = SeenPolicy.dailyLimitLamports - SeenSpent
             /\ validation.lamports > 0 /\ ~ValidationFails[6])
            => validation.result.allowed
       /\ (validation.lamports = SeenPolicy.dailyLimitLamports - SeenSpent
             /\ validation.lamports = 0)
            => validation.result = Blocked(ReasonNotPositive)

\* The amount one above the remaining quota, after some spend, blocked with
\* the daily-limit reason.
C7_Witness ==
  /\ validation.called
  /\ ~ValidationFails[1]
  /\ SeenSpent > 0
  /\ SeenSpent < SeenPolicy.dailyLimitLamports
  /\ validation.lamports = SeenPolicy.dailyLimitLamports - SeenSpent + 1
  /\ validation.result = Blocked(ReasonDaily)

\* C8: with a whitelist configured, every target outside it is Blocked, for
\* every amount.
C8_NonMemberBlocked ==
  (validation.called /\ SeenPolicy.hasAllowedTargets
     /\ validation.target \notin SeenPolicy.allowedTargets)
    => ~validation.result.allowed

\* A target outside the whitelist, all other checks passing, blocked with the
\* whitelist reason.
C8_Witness ==
  /\ validation.called
  /\ SeenPolicy.hasAllowedTargets
  /\ validation.target \notin SeenPolicy.allowedTargets
  /\ \A k \in 1 .. 5 : ~ValidationFails[k]
  /\ validation.result = Blocked(ReasonWhitelist)

C10_BlockedWhileDeactivated ==
  validation.called =>
    /\ validation.control = "deactivate"
         => validation.result = Blocked(ReasonDeactivated)
    /\ validation.control = "reactivate"
         => /\ validation.result.reason # ReasonDeactivated
            /\ validation.result.allowed
                 <=> \A k \in 2 .. 6 : ~ValidationFails[k]

\* A call after deactivate() that every other check would have let through.
C10_Witness ==
  /\ validation.called
  /\ validation.control = "deactivate"
  /\ \A k \in 2 .. 6 : ~ValidationFails[k]
  /\ validation.result = Blocked(ReasonDeactivated)

\* C1 as stated: a transferSOL invocation that has ended has appended exactly
\* one record, whichever collaborator call failed.
C1_Original ==
  \A i \in CallIds : calls[i].pc = "done" => calls[i].appended = 1

C2_Step(i) ==
  LET c == calls[i]
      d == calls'[i]
  IN d # c =>
       /\ balanceLamports' # balanceLamports
            => /\ c.pc \in {"getBalance", "getBalanceAfter"}
               /\ balanceLamports' = ledgerLamports
       /\ dailySpentLamports' # dailySpentLamports
            => \/ /\ c.pc = "refreshed" /\ ~c.skipPolicyCheck
                  /\ now >= dailySpentResetAt
                  /\ dailySpentLamports' = 0
               \/ /\ c.pc = "sendAndConfirm" /\ d.confirmed
                  /\ dailySpentLamports' = dailySpentLamports + c.lamports
       /\ c.confirmed => d.confirmed
       /\ (d.pc = "done" /\ d.outcome \in {"blocked", "approval"})
            => ~d.confirmed
       /\ (d.pc = "done" /\ d.outcome = "failed")
            => (d.confirmed <=> c.pc = "getBalanceAfter")

C3_Original ==
  \A i \in CallIds : calls[i].signed => calls[i].policyOk

\* C11 as stated, for invocations that do not bypass the policy: once
\* deactivate() has returned and until reactivate() is called, no invocation
\* signs a transaction, whatever the interleaving and also when the invocation
\* was already in flight.
C11_Original ==
  [][\A i \in CallIds :
       (~calls[i].signed /\ calls'[i].signed /\ ~calls[i].skipPolicyCheck)
         => lastControl # "deactivate"]_vars

\* The invocation has passed validation and has not ended.
PastValidation(i) == calls[i].pc \in {"getLatestBlockhash", "sendAndConfirm"}

\* C12: each of two concurrent transferSOL invocations is validated on its
\* own against the balance the wallet holds: while no broadcast is confirmed,
\* an invocation that passed validation asked for a positive amount within
\* that balance, which is the ledger's.  Nothing is set aside for it, so both
\* can pass and be signed and broadcast with amounts that together exceed the
\* balance (the state of C12_Witness).
C12_EachPassesAlone ==
  \A i \in CallIds :
    (/\ PastValidation(i)
     /\ ~calls[i].skipPolicyCheck
     /\ \A j \in CallIds : ~calls[j].confirmed)
      => /\ 0 < calls[i].lamports
         /\ calls[i].lamports <= balanceLamports
         /\ balanceLamports = ledgerLamports

\* Both invocations validated, signed and handed to the ledger, their amounts
\* together above the balance both read.
C12_Witness ==
  /\ \A i \in CallIds :
       /\ calls[i].pc = "sendAndConfirm"
       /\ calls[i].signed
       /\ calls[i].policyOk
       /\ ~calls[i].skipPolicyCheck
       /\ calls[i].lamports <= balanceLamports
  /\ balanceLamports = ledgerLamports
  /\ calls[1].lamports + calls[2].lamports > balanceLamports

\* What the success path of invocation i does in one step.
C13_Step(i) ==
  LET c == calls[i]
      d == calls'[i]
  IN /\ (~c.confirmed /\ d.confirmed)
          => /\ dailySpentLamports' = dailySpentLamports + c.lamports
             /\ transactionHistory' = Append(transactionHistory,
                  [signature |-> "SIGNATURE", to |-> c.to,
                   lamports |-> c.lamports, status |-> "success",
                   reason |-> ReasonNone])
     /\ (c.pc # "done" /\ d.pc = "done" /\ d.outcome = "success")
          => /\ c.pc = "getBalanceAfter"
             /\ c.confirmed
             /\ d.appended = 1
             /\ balanceLamports' = ledgerLamports
             /\ dailySpentLamports' = dailySpentLamports
             /\ transactionHistory' = transactionHistory

\* C13: an invocation ends in Success only after its broadcast was confirmed;
\* the confirmation added exactly the transferred amount to dailySpent and
\* appended the record with status success, and the invocation ends by storing
\* the ledger's balance, read after the broadcast.
C13_SuccessEffects == [][\A i \in CallIds : C13_Step(i)]_vars

\* A lone successful transfer of a positive amount.
C13_Witness ==
  /\ calls[1].outcome = "success"
  /\ calls[1].lamports > 0
  /\ calls[2].pc = "idle"
  /\ dailySpentLamports = calls[1].lamports
  /\ balanceLamports = ledgerLamports
  /\ Len(transactionHistory) = 1
  /\ transactionHistory[1].status = "success"

\* What invocation i may do once it is inside the try block.
C14_Step(i) ==
  LET c == calls[i]
      d == calls'[i]
  IN /\ (c.pc \in {"getLatestBlockhash", "sendAndConfirm"} /\ d # c)
          => \/ c.pc = "getLatestBlockhash" /\ d.pc = "sendAndConfirm"
             \/ /\ c.pc = "sendAndConfirm"
                /\ d.pc = "getBalanceAfter" /\ d.confirmed
             \/ /\ d.pc = "done" /\ d.outcome = "failed"
                /\ ~d.confirmed
                /\ transactionHistory' = Append(transactionHistory,
                     [signature |-> "FAILED", to |-> c.to,
                      lamports |-> c.lamports, status |-> "failed",
                      reason |-> "err.message"])
     /\ (d.pc = "sendAndConfirm" /\ c.pc # "sendAndConfirm")
          => (c.pc = "getLatestBlockhash" /\ ~c.signed)
     /\ c.pc = "done" => d = c

\* C14: a failure of getLatestBlockhash, of signing or of
\* sendAndConfirmTransaction ends the invocation as Failed with a record whose
\* reason is the error's message; the invocation hands a transaction to the
\* ledger at most once and never goes back to an earlier step.
C14_FailureIsTerminal == [][\A i \in CallIds : C14_Step(i)]_vars

\* An invocation whose broadcast failed after signing, ended as Failed.
C14_Witness ==
  /\ calls[1].pc = "done"
  /\ calls[1].outcome = "failed"
  /\ calls[1].signed
  /\ ~calls[1].confirmed
  /\ calls[1].appended = 1
  /\ transactionHistory # << >>
  /\ transactionHistory[Len(transactionHistory)].reason = "err.message"

\* C15 as stated: transferSOL never rejects; every invocation that ends
\* returns a record.
C15_Original ==
  \A i \in CallIds : calls[i].pc = "done" => calls[i].outcome # "rejected"

\* What the policy bypass and the agents may do in one step.
C16_Step(i) ==
  LET c == calls[i]
      d == calls'[i]
  IN /\ (c.pc = "refreshed" /\ d # c /\ ~c.skipPolicyCheck)
          => /\ d.pc = "getLatestBlockhash"
                  <=> Decision(c.lamports, c.to) = Allowed
             /\ (d.pc = "done" /\ d.outcome = "blocked")
                  <=> ~Decision(c.lamports, c.to).allowed
     /\ d.caller # "direct" => ~d.skipPolicyCheck

\* C16: an invocation goes from validation to signing without the policy
\* engine's plain Allowed only when it was called with skipPolicyCheck = true,
\* and no invocation issued by the act operation of LiquidityProviderAgent,
\* TreasuryManagerAgent or PaymentRelayAgent has that flag set.
C16_BypassOnlyByFlag == [][\A i \in CallIds : C16_Step(i)]_vars

\* An agent's request stopped by the policy next to a direct call that took
\* the bypass and signed a transfer the policy forbids.
C16_Witness ==
  /\ calls[1].caller = "payment-relay"
  /\ calls[1].outcome = "blocked"
  /\ calls[2].caller = "direct"
  /\ calls[2].skipPolicyCheck
  /\ calls[2].signed
  /\ ~calls[2].policyOk

\* C17: an invocation that ended as approval-required is over: it appended
\* one record, signed nothing and nothing was confirmed for it, in every later
\* state; its record has signature PENDING_APPROVAL, status blocked and a
\* reason that is none of the six policy-violation reasons.
C17_ApprovalTerminal ==
  /\ \A i \in CallIds :
       calls[i].outcome = "approval"
         => /\ calls[i].pc = "done"
            /\ ~calls[i].signed
            /\ ~calls[i].confirmed
            /\ calls[i].appended = 1
            /\ \E k \in 1 .. Len(transactionHistory) :
                 /\ transactionHistory[k].signature = "PENDING_APPROVAL"
                 /\ transactionHistory[k].to = calls[i].to
                 /\ transactionHistory[k].lamports = calls[i].lamports
  /\ \A k \in 1 .. Len(transactionHistory) :
       transactionHistory[k].signature = "PENDING_APPROVAL"
         => /\ transactionHistory[k].status = "blocked"
            /\ transactionHistory[k].reason = ReasonApproval
            /\ \A n \in 1 .. 6 :
                 transactionHistory[k].reason # ValidationReasons[n]

\* An approval-required attempt still unsigned after a later transfer of the
\* same wallet succeeded.
C17_Witness ==
  /\ calls[1].outcome = "approval"
  /\ ~calls[1].signed
  /\ calls[2].outcome = "success"
  /\ Len(transactionHistory) = 2
  /\ transactionHistory[1].signature = "PENDING_APPROVAL"
  /\ transactionHistory[2].status = "success"

\* C18: transactionHistory is append-only: in every step of the wallet, under
\* transfers, refreshes, deactivation and reactivation (the registry's pause
\* and resume), the history before the step is a prefix of the history after.
C18_AppendOnly ==
  [][/\ Len(transactionHistory) <= Len(transactionHistory')
     /\ SubSeq(transactionHistory', 1, Len(transactionHistory))
          = transactionHistory]_vars

\* A history of two records written by one invocation: its success record,
\* kept, and the failed record its catch block added after it.
C18_Witness ==
  /\ calls[1].pc = "done"
  /\ calls[1].appended = 2
  /\ Len(transactionHistory) = 2
  /\ transactionHistory[1].status = "success"
  /\ transactionHistory[2].status = "failed"

\* C19: getAuditLog changes no wallet state, and no push, pop or reverse on
\* the array it returned changes transactionHistory (or any other wallet
\* state).
C19_CopyIsIndependent ==
  [][auditLog' # auditLog => UNCHANGED walletVars]_vars

\* The returned array reordered by its caller while the wallet's history keeps
\* its order.
C19_Witness ==
  /\ auditLog.returned
  /\ Len(transactionHistory) = 2
  /\ auditLog.items = << transactionHistory[2], transactionHistory[1] >>
  /\ auditLog.items # transactionHistory

\* C20: dailySpent decreases only by being set to zero at a reset-boundary
\* crossing (the time at or past dailySpentResetAt, the boundary then moving to
\* the next midnight); in every other step it stays or grows.
C20_ResetOnlyAtBoundary ==
  [][dailySpentLamports' < dailySpentLamports
       => /\ now >= dailySpentResetAt
          /\ dailySpentLamports' = 0
          /\ dailySpentResetAt' = nextMidnight(now)]_vars

\* A counter that a confirmed transfer had raised, zeroed by the validation of
\* a later invocation after midnight.
C20_Witness ==
  /\ calls[1].outcome = "success"
  /\ calls[1].lamports > 0
  /\ calls[2].pc = "done"
  /\ ~calls[2].skipPolicyCheck
  /\ dailySpentLamports = 0
  /\ dailySpentResetAt = nextMidnight(DayLength)

LedgerCalled(i) == calls[i].pc # "idle"

\* The policy decision of the invocation has been made.
PolicyDecided(i) ==
  \/ calls[i].pc \in {"getLatestBlockhash", "sendAndConfirm", "getBalanceAfter"}
  \/ calls[i].pc = "done" /\ calls[i].outcome # "rejected"

\* C27 as stated: in every transferSOL invocation that does not bypass the
\* policy, the policy decision is made before the first ledger call.
C27_Original ==
  \A i \in CallIds :
    (LedgerCalled(i) /\ ~calls[i].skipPolicyCheck) => PolicyDecided(i)

\* The awaits of transferSOL, as positions of a suspended invocation.
SuspensionPoints ==
  { "getBalance", "refreshed", "getLatestBlockhash", "sendAndConfirm",
    "getBalanceAfter" }

Field(p, f) ==
  IF f = "allowedTargets" THEN << p.hasAllowedTargets, p.allowedTargets >>
  ELSE p[f]

\* C26: updatePolicy merges the given fields into the policy: after the call
\* every field it names has the value given and every field it does not name
\* has the value it had; and a validateTransfer call is decided by the policy
\* as merged by the updates made before it.
C26_MergeTakesEffect ==
  [][/\ lastUpdate'.called =>
          \A f \in PolicyFields :
            Field(policy', f) =
              IF f \in lastUpdate'.named
                THEN Field(lastUpdate'.values, f)
                ELSE Field(lastUpdate'.before, f)
     /\ validation' # validation =>
          /\ validation'.seen.policy = policy
          /\ validation'.result =
               validateTransfer(isActive, balanceLamports,
                                validation'.seen.spent, policy,
                                validation'.lamports, validation'.target)]_vars

\* The per-transaction cap alone raised by an update, the daily limit kept,
\* and the next validation allowing an amount the policy before the update
\* blocked.
C26_Witness ==
  /\ lastUpdate.called
  /\ lastUpdate.named = {"maxTransactionLamports"}
  /\ policy.dailyLimitLamports = lastUpdate.before.dailyLimitLamports
  /\ policy.dailyLimitLamports # lastUpdate.values.dailyLimitLamports
  /\ validation.called
  /\ validation.seen.policy = policy
  /\ validation.result.allowed
  /\ validation.lamports > lastUpdate.before.maxTransactionLamports

\* C29: isActive changes only in deactivate() and reactivate(), which are
\* what pauseAgent, resumeAgent, pauseAllAgents and resumeAllAgents call on a
\* wallet: no step of transferSOL (blocked and failed transfers included),
\* validateTransfer, refreshBalance, updatePolicy, getAuditLog, getSummary or
\* the funding of the wallet changes it.
C29_OnlyControlChangesFlag ==
  [][isActive' # isActive => (deactivate \/ reactivate)]_vars

\* A wallet never deactivated and still active after a blocked transfer, a
\* validation, a policy update, an audit-log read and a summary.
C29_Witness ==
  /\ calls[1].outcome = "blocked"
  /\ transactionHistory # << >>
  /\ validation.called
  /\ lastUpdate.called
  /\ auditLog.returned
  /\ summary.returned
  /\ lastControl = "none"
  /\ isActive

\* What a step may do to the registry's entries.
C22_Step ==
  /\ Len(wallets') >= Len(wallets)
  /\ \A k \in 1 .. Len(wallets) :
       /\ wallets'[k].agentId = wallets[k].agentId
       /\ wallets'[k].keypair = wallets[k].keypair
  /\ \A j, k \in 1 .. Len(wallets') :
       j # k => wallets'[j].agentId # wallets'[k].agentId
  /\ (lastCall' # lastCall /\ lastCall'.op = "createAgentWallet"
        /\ Has(lastCall'.agentId))
       => /\ lastCall'.error = ErrExists
          /\ lastCall'.returned = 0
          /\ UNCHANGED << wallets, fleetLedger, fleetCalls, airdrop >>

\* C22: createAgentWallet with an agentId the registry holds fails with the
\* already-exists error and changes nothing; the wallet bound to an agentId
\* stays the one first created for it (same key), at its place in the
\* registry, under every registry operation; no entry is removed and no
\* agentId is bound twice.
C22_DuplicateNeverOverwrites == [][C22_Step]_vars

\* A second createAgentWallet for a1 that failed, a1's wallet still the first
\* one created, funded and paused as it was.
C22_Witness ==
  /\ lastCall = Call("createAgentWallet", "a1", ErrExists, 0)
  /\ Len(wallets) = 2
  /\ wallets[1].agentId = "a1"
  /\ wallets[1].keypair = 1
  /\ wallets[1].balanceLamports > 0
  /\ ~wallets[1].isActive

\* C23: getWallet, pauseAgent, resumeAgent and airdropToAgent called with an
\* agentId the registry does not hold fail with the no-wallet error (for
\* airdropToAgent: the returned promise rejects with it) and change neither
\* the registry nor any wallet, ledger balance or running airdrop.
C23_AbsentAgentFails ==
  [][(lastCall' # lastCall
       /\ lastCall'.op \in {"getWallet", "pauseAgent", "resumeAgent",
                             "airdropToAgent"}
       /\ ~Has(lastCall'.agentId))
      => /\ lastCall'.error = ErrNoWallet
         /\ lastCall'.returned = 0
         /\ UNCHANGED << wallets, fleetLedger, fleetCalls, airdrop >>]_vars

\* airdropToAgent for the unregistered a2 failed; a1, funded by an earlier
\* airdrop, is as it was.
C23_Witness ==
  /\ lastCall = Call("airdropToAgent", "a2", ErrNoWallet, 0)
  /\ Has("a1")
  /\ ~Has("a2")
  /\ airdrop.pc = "done"
  /\ airdrop.agentId = "a1"
  /\ ~airdrop.raised
  /\ wallets[1].balanceLamports > 0

\* While airdropToAllAgents runs and when it has ended: requestAirdrop was
\* called once for each entry up to the iterator's position, in the order of
\* the registry, and nothing was raised to the caller.
C24_AttemptsInOrder ==
  (airdrop.all /\ airdrop.pc # "idle")
    => /\ airdrop.index <= Len(wallets)
       /\ Len(airdrop.attempts) = airdrop.index
       /\ \A k \in 1 .. airdrop.index :
            airdrop.attempts[k] = wallets[k].agentId
       /\ \A j, k \in 1 .. airdrop.index :
            j # k => airdrop.attempts[j] # airdrop.attempts[k]
       /\ \A k \in 1 .. Len(airdrop.failures) :
            \E j \in 1 .. airdrop.index :
              airdrop.failures[k] = airdrop.attempts[j]
       /\ ~airdrop.raised

\* airdropToAllAgents ends only when the iterator has passed the last entry.
C24_EndsAfterLast ==
  (airdrop.pc # "done" /\ airdrop'.pc = "done" /\ airdrop'.all)
    => airdrop'.index = Len(wallets')

\* C24: airdropToAllAgents attempts the funding of every registered agent
\* exactly once, one after the other in the order of the registry (agents
\* registered while it runs included); a failed funding is not raised and
\* does not end the loop; and, every ledger call settling and the delay
\* elapsing, the operation terminates.
C24_FundsAllAndTerminates ==
  /\ []C24_AttemptsInOrder
  /\ [][C24_EndsAfterLast]_vars
  /\ (airdrop.all /\ airdrop.pc \notin {"idle", "done"}) ~> (airdrop.pc = "done")

\* airdropToAllAgents ended after attempting a2 then a1, in the order they
\* were registered; the funding of a2 failed and a1 was funded all the same.
C24_Witness ==
  /\ airdrop.pc = "done"
  /\ airdrop.all
  /\ airdrop.attempts = << "a2", "a1" >>
  /\ airdrop.failures = << "a2" >>
  /\ ~airdrop.raised
  /\ Len(wallets) = 2
  /\ wallets[2].balanceLamports > 0

\* The records of all the registered wallets, as (wallet, position) pairs.
FleetRecords ==
  UNION { { << k, n >> : n \in 1 .. Len(wallets[k].transactionHistory) } :
          k \in 1 .. Len(wallets) }

FleetSuccesses ==
  { r \in FleetRecords :
      wallets[r[1]].transactionHistory[r[2]].status = "success" }

\* C25: getFleetSummary reports as totalTransactions the number of records
\* of all wallets, as successRate the number of success records divided by
\* it when there is at least one record and exactly 0 when there is none, and
\* as activeAgents the number of active wallets, at most totalAgents.
C25_FleetSummaryNumbers ==
  [][fleetSummary' # fleetSummary =>
       LET f == fleetSummary'
       IN /\ f.totalTransactions = Cardinality(FleetRecords)
          /\ Cardinality(FleetRecords) > 0
               => /\ f.successRate.den # 0
                  /\ f.successRate.num * Cardinality(FleetRecords)
                       = Cardinality(FleetSuccesses) * f.successRate.den
          /\ Cardinality(FleetRecords) = 0 => f.successRate = Ratio(0, 1)
          /\ f.totalAgents = Len(wallets)
          /\ f.activeAgents =
               Cardinality({ k \in 1 .. Len(wallets) : wallets[k].isActive })
          /\ f.activeAgents <= f.totalAgents]_vars

\* A summary of a fleet with one wallet paused: three records, one of them a
\* success, the rate one third.
C25_Witness ==
  /\ fleetSummary.returned
  /\ fleetSummary.totalAgents = 2
  /\ fleetSummary.activeAgents = 1
  /\ fleetSummary.totalTransactions = 3
  /\ fleetSummary.successRate = Ratio(1, 3)

\* Every registered wallet has the given flag.
AllFlags(ws, flag) == \A k \in 1 .. Len(ws) : ws[k].isActive = flag

\* C30: from the return of pauseAllAgents until the next manager call every
\* registered wallet is inactive, and from the return of resumeAllAgents
\* every one is active; the flags of all wallets change in one step in which
\* no transferSOL invocation of any wallet moves and nothing else of the
\* wallets changes, so no state with only some of the flags changed exists.
C30_BulkPauseIsAtomic ==
  [][/\ lastCall'.op = "pauseAllAgents" => AllFlags(wallets', FALSE)
     /\ lastCall'.op = "resumeAllAgents" => AllFlags(wallets', TRUE)
     /\ (lastCall' # lastCall
          /\ lastCall'.op \in {"pauseAllAgents", "resumeAllAgents"})
         => /\ fleetCalls' = fleetCalls
            /\ \A k \in 1 .. Len(wallets) :
                 wallets'[k] =
                   [wallets[k] EXCEPT
                      !.isActive = (lastCall'.op = "resumeAllAgents")]]_vars

\* pauseAllAgents returned while the transfer of a1's wallet was past its
\* validation and the wallets had different flags; both wallets are inactive
\* and the transfer of a2's wallet was blocked for it.
C30_Witness ==
  /\ lastCall.op = "pauseAllAgents"
  /\ AllFlags(wallets, FALSE)
  /\ fleetCalls["a1"] = "sendAndConfirm"
  /\ fleetCalls["a2"] = "done"
  /\ wallets[2].transactionHistory =
       << FleetRecord("BLOCKED", "blocked", ReasonDeactivated) >>

\* What the executing phase of invocation i does in one step.
C31_Step(i) ==
  LET c == calls[i]
      d == calls'[i]
  IN /\ (~c.signed /\ d.signed)
          => (c.pc = "getLatestBlockhash" /\ d.pc = "sendAndConfirm")
     /\ d.pc = "sendAndConfirm" => (d.signed /\ ~d.confirmed)
     /\ (~c.confirmed /\ d.confirmed)
          => (c.pc = "sendAndConfirm" /\ c.signed /\ d.pc = "getBalanceAfter")
     /\ (c.pc = "getLatestBlockhash" /\ d.pc = "done")
          => (d.outcome = "failed" /\ ~d.signed /\ ~d.confirmed)
     /\ (c.pc = "sendAndConfirm" /\ d.pc = "done")
          => (d.outcome = "failed" /\ ~d.confirmed)
     /\ c.pc = "done" => d = c

\* C31: in the executing phase the reference is fetched (getLatestBlockhash),
\* then the transfer is built and signed, then it is broadcast and its
\* confirmation awaited: an invocation signs only in the step in which its
\* reference fetch resolves, is at the broadcast only when signed, is
\* confirmed only from the broadcast; a failed reference fetch ends it
\* unsigned, a failed broadcast ends it unconfirmed, and an ended invocation
\* takes no further step.
C31_ReferenceSignBroadcast == [][\A i \in CallIds : C31_Step(i)]_vars

\* One invocation that went through reference, signature and confirmed
\* broadcast, and one whose reference fetch failed and that never signed.
C31_Witness ==
  /\ calls[1].outcome = "success"
  /\ calls[1].signed /\ calls[1].confirmed
  /\ calls[2].outcome = "failed"
  /\ ~calls[2].signed
  /\ ~calls[2].skipPolicyCheck
  /\ calls[2].policyOk

\* C32: validateTransfer changes neither balance, transactionHistory,
\* isActive nor policy; it leaves dailySpent and dailySpentResetAt as they
\* are when the time is before the reset boundary, and resets them when the
\* boundary has been reached, on every call, the wallet deactivated or not.
C32_PureApartFromReset ==
  [][/\ UNCHANGED << balanceLamports, transactionHistory, isActive, policy >>
     /\ IF now >= dailySpentResetAt
          THEN /\ dailySpentLamports' = 0
               /\ dailySpentResetAt' = nextMidnight(now)
          ELSE UNCHANGED << dailySpentLamports, dailySpentResetAt >>]_vars

\* A call on a deactivated wallet, blocked for that, that zeroed a used
\* counter all the same.
C32_Witness ==
  /\ validation.called
  /\ ~isActive
  /\ validation.result = Blocked(ReasonDeactivated)
  /\ validation.before.spent > 0
  /\ validation.before.resetAt <= now
  /\ dailySpentLamports = 0
  /\ dailySpentResetAt > now

\* The record has one of the shapes transferSOL writes.
ConsistentRecord(r) ==
  \/ r.status = "success" /\ r.signature = "SIGNATURE" /\ r.reason = ReasonNone
  \/ r.status = "failed" /\ r.signature = "FAILED" /\ r.reason # ReasonNone
  \/ /\ r.status = "blocked"
     /\ r.signature \in {"BLOCKED", "PENDING_APPROVAL"}
     /\ r.reason # ReasonNone

RECURSIVE SuccessSum(_, _)
\* The sum of the amounts of the success records of history after its first
\* mark records.
SuccessSum(history, mark) ==
  IF Len(history) <= mark THEN 0
  ELSE LET r == history[Len(history)]
       IN SuccessSum(SubSeq(history, 1, Len(history) - 1), mark)
            + (IF r.status = "success" THEN r.lamports ELSE 0)

\* C34: dailySpent is the sum of the amounts of the success records appended
\* since the last quota reset, since construction when there was none.
C34_SpentIsSumOfSuccesses ==
  dailySpentLamports = SuccessSum(transactionHistory, resetMark)

\* A reset between two successful transfers: the counter holds the second
\* amount only.
C34_Witness ==
  /\ resetMark > 0
  /\ transactionHistory[resetMark].status = "success"
  /\ Len(transactionHistory) > resetMark
  /\ transactionHistory[Len(transactionHistory)].status = "success"
  /\ dailySpentLamports > 0
  /\ dailySpentLamports < SuccessSum(transactionHistory, 0)

\* C35: when every transferSOL invocation runs to its end before the next
\* starts, none passes skipPolicyCheck and updatePolicy never lowers the
\* daily limit, dailySpent never exceeds the daily limit, and every success
\* record is that of an invocation whose amount is positive and at most the
\* maxTransaction validateTransfer read for it.
C35_SerialStaysWithinLimits ==
  /\ dailySpentLamports <= policy.dailyLimitLamports
  /\ \A k \in WithStatus(transactionHistory, "success") :
       \E i \in CallIds :
         /\ calls[i].confirmed
         /\ ~calls[i].skipPolicyCheck
         /\ calls[i].to = transactionHistory[k].to
         /\ calls[i].lamports = transactionHistory[k].lamports
         /\ 0 < calls[i].lamports
         /\ calls[i].lamports <= calls[i].validatedMax

\* The counter at a daily limit that was raised, reached by a transfer above
\* the cap now in force: the cap was lowered after the transfer was validated.
C35_Witness ==
  /\ dailySpentLamports = policy.dailyLimitLamports
  /\ policy.dailyLimitLamports > SerialPolicy.dailyLimitLamports
  /\ \E k \in WithStatus(transactionHistory, "success") :
       transactionHistory[k].lamports > policy.maxTransactionLamports

\* The least of three amounts.
Min3(a, b, c) ==
  IF a <= b /\ a <= c THEN a ELSE IF b <= c THEN b ELSE c

\* The invocation's validation returned approval-required in this step.
ApprovalReturned(i) ==
  calls[i].pc = "refreshed" /\ calls'[i].outcome = "approval"

\* The history holds a PENDING_APPROVAL record.
HasPendingApproval ==
  \E k \in 1 .. Len(transactionHistory) :
    transactionHistory[k].signature = "PENDING_APPROVAL"

\* C36: validateTransfer returns approval-required only for an amount from
\* the approval threshold up to the least of the balance, the
\* per-transaction cap and what is left of the daily limit; so under a
\* policy whose threshold is above its cap no invocation of transferSOL
\* appends a PENDING_APPROVAL record.
C36_ApprovalOnlyWithinLimits ==
  /\ [][\A i \in CallIds : ApprovalReturned(i) =>
          /\ policy.approvalThresholdLamports <= calls[i].lamports
          /\ calls[i].lamports <=
               Min3(balanceLamports, policy.maxTransactionLamports,
                    policy.dailyLimitLamports - dailySpentLamports')]_vars
  /\ [](policy.approvalThresholdLamports > policy.maxTransactionLamports
          => ~HasPendingApproval)

\* Under a policy whose threshold is above its cap, a request at the
\* threshold that the balance and the daily limit would allow is blocked by
\* the cap, not held for approval.
C36_Witness ==
  /\ policy.requiresApproval
  /\ policy.approvalThresholdLamports > policy.maxTransactionLamports
  /\ calls[1].lamports >= policy.approvalThresholdLamports
  /\ calls[1].lamports <= balanceLamports
  /\ calls[1].lamports <= policy.dailyLimitLamports - dailySpentLamports
  /\ ~calls[1].skipPolicyCheck
  /\ calls[1].outcome = "blocked"
  /\ transactionHistory[1].reason = ReasonPerTx

\* The agentIds registered in the registry ws.
Registered(ws) == { ws[k].agentId : k \in 1 .. Len(ws) }

\* Configuration k of the list carries an agentId that is registered in ws
\* or that an earlier configuration of the list carries.
Clashes(ws, agentIds, k) ==
  \/ agentIds[k] \in Registered(ws)
  \/ \E j \in 1 .. (k - 1) : agentIds[j] = agentIds[k]

\* What a createAgentFleet call with the list agentIds does to the registry.
C39_Step(agentIds) ==
  LET clashing == { k \in 1 .. Len(agentIds) : Clashes(wallets, agentIds, k) }
  IN IF clashing = {}
       THEN /\ lastCall'.error = ErrNone
            /\ Len(wallets') = Len(wallets) + Len(agentIds)
       ELSE LET n == CHOOSE k \in clashing : \A j \in clashing : k <= j
            IN /\ lastCall'.error = ErrExists
               /\ lastCall'.agentId = agentIds[n]
               /\ Len(wallets') = Len(wallets) + n - 1
               /\ SubSeq(wallets', 1, Len(wallets)) = wallets
               /\ \A k \in 1 .. (n - 1) :
                    wallets'[Len(wallets) + k].agentId = agentIds[k]
               /\ \A k \in (n + 1) .. Len(agentIds) :
                    ~Clashes(wallets, agentIds, k)
                      => agentIds[k] \notin Registered(wallets')

\* C39: createAgentFleet is not atomic: when a configuration carries an
\* agentId that is registered already or that an earlier configuration of
\* the list carries, the call throws at the first such configuration, the
\* wallets of the configurations before it stay registered and none of those
\* after it is created.
C39_FleetCreationNotAtomic ==
  [][(lastCall' # lastCall /\ lastCall'.op = "createAgentFleet")
       => C39_Step(lastCall'.configs)]_vars

\* A call that registered a2 and then threw at a1, which was registered
\* before.
C39_Witness ==
  /\ lastCall.op = "createAgentFleet"
  /\ lastCall.configs = << "a2", "a1" >>
  /\ lastCall.error = ErrExists
  /\ lastCall.agentId = "a1"
  /\ Len(wallets) = 2
  /\ wallets[1].agentId = "a1"
  /\ wallets[2].agentId = "a2"

\* The agents whose wallet the step operates on: the one whose transferSOL
\* invocation moves, else the one the synchronous call is made on.
Operated ==
  LET movers == { a \in AgentIds : fleetCalls'[a] # fleetCalls[a] }
  IN IF movers # {} THEN movers ELSE {lastCall'.agentId}

\* C37: the wallets of a registry are independent: a step of transferSOL,
\* validateTransfer, deactivate, reactivate, updatePolicy or refreshBalance
\* on one wallet leaves the balance, dailySpent, history, isActive and
\* policy of every other wallet as they are, also while the wallets refer to
\* the same policy object.
C37_WalletsIndependent ==
  [][\A k \in 1 .. Len(wallets) :
       wallets[k].agentId \notin Operated => wallets'[k] = wallets[k]]_vars

\* a1's policy was updated while a2 still refers to the default policy
\* object and keeps its content; a1 transferred to a2, whose stored balance
\* is still the one of its creation.
C37_Witness ==
  /\ wallets[1].policyObject # DefaultPolicyObject
  /\ wallets[2].policyObject = DefaultPolicyObject
  /\ wallets[1].policy # CreatedPolicy
  /\ wallets[2].policy = CreatedPolicy
  /\ Len(wallets[1].transactionHistory) = 1
  /\ wallets[1].transactionHistory[1].status = "success"
  /\ fleetLedger["a2"] = 2
  /\ wallets[2].balanceLamports = 0
  /\ wallets[2].transactionHistory = << >>

\* The memos of the queued payments, head first.
QueuedMemos == [k \in 1 .. Len(relay.queue) |-> relay.queue[k].memo]

\* The transferSOL invocations the relay has issued.
RelayCalls ==
  { i \in CallIds : calls[i].pc # "idle" /\ calls[i].caller = "payment-relay" }

\* The invocations that start in the step.
Started == { i \in CallIds : calls[i].pc = "idle" /\ calls'[i].pc # "idle" }

\* C38: the relay works its queue off head first: the payments it issued a
\* transfer for, followed by those still queued, are the payments in the
\* order they were queued, each once, and it has issued one transferSOL per
\* payment taken off; a step that takes a payment off takes the head off and
\* starts exactly one transferSOL, for that payment's destination and amount;
\* no step of a transfer, however it ends, puts a payment back.
C38_RelayIsFifoAndOnce ==
  /\ [](/\ relay.issued \o QueuedMemos =
            [k \in 1 .. (Len(relay.issued) + Len(relay.queue)) |-> k]
        /\ Cardinality(RelayCalls) = Len(relay.issued))
  /\ [][/\ relay'.issued # relay.issued =>
            /\ relay.queue # << >>
            /\ relay'.queue = Tail(relay.queue)
            /\ relay'.issued = Append(relay.issued, Head(relay.queue).memo)
            /\ Cardinality(Started) = 1
            /\ \A i \in Started :
                 /\ calls'[i].to = Head(relay.queue).to
                 /\ calls'[i].lamports = Head(relay.queue).lamports
                 /\ ~calls'[i].skipPolicyCheck
        /\ relay'.issued = relay.issued =>
            /\ Started = {}
            /\ \/ relay'.queue = relay.queue
               \/ /\ calls' = calls
                  /\ Len(relay'.queue) = Len(relay.queue) + 1
                  /\ SubSeq(relay'.queue, 1, Len(relay.queue)) = relay.queue
       ]_vars

\* Two payments queued and taken off in order; the first, of MaxLamports,
\* ended blocked, the second, of one lamport, ended as a success; neither is
\* queued again.
C38_Witness ==
  /\ relay.issued = << 1, 2 >>
  /\ relay.queue = << >>
  /\ calls[1].lamports = MaxLamports
  /\ calls[1].outcome = "blocked"
  /\ calls[2].lamports = 1
  /\ calls[2].pc = "done"
  /\ calls[2].confirmed

====
